---- MODULE Spec2Model ----
(***************************************************************************)
(* Floyd-Steinberg error-diffusion dithering: the serial engine            *)
(* (dither_image_st) and the wavefront engine (dither_image_mt with its    *)
(* workers, process_wavefront) of thread.c, with floor_divide.             *)
(*                                                                         *)
(* A behaviour is one caller: it runs the serial engine on the input grid, *)
(* keeps that output, then runs the wavefront engine on the same grid.     *)
(* Every pthread call of a worker that touches shared memory is one step;  *)
(* computations on a worker's locals are folded into the step before them. *)
(* pthread_cond_wait is modelled without spurious wake-ups.                *)
(*                                                                         *)
(* Beside them, each under a specification of its own: main of thread.c,   *)
(* dither_image of error_diffusion.c, rgb_to_grayscale, the benchmark      *)
(* harness of analysis.c, the ranged critical-section programs             *)
(* readers_writers.c and testrw.c, fork.c, and handle_client of server.c.  *)
(***************************************************************************)
EXTENDS Integers, Sequences, FiniteSets, TLC

\* ---------------------------------------------------------------- bounds
MaxHeight == 2
MaxWidth == 3
MaxThreads == 2
MaxNumerator == 64

\* ------------------------------------------------------ program constants
Threshold == 128
White == 255
Denominator == 16
UCharRange == 256

\* Input intensities the grids are built from (all inside 0..255).
PixelValues == {0, 128, 129, 255}

\* Markers that are no program value.
Unset == -1
Free == -1
NoResult == <<>>

VARIABLES
  width, height, num_threads, input,  \* the call's arguments
  main,                               \* the caller: "st", "st_done", "mt", "mt_done", "idle"
  st_y, st_x,                         \* dither_image_st: loop variables y, x
  work, output,                       \* the running engine's work grid, the output grid
  st_output,                          \* the output the serial engine produced
  prev_output, run,                   \* output of the previous wavefront run, run number
  pixel_processed, pixel_mutexes,     \* per pixel: the flag, the mutex's owner
  pc, diag, y, err, k, tmp,           \* per worker: position, loop variables, locals
  qcount, qval, qerr, deplog,         \* history: per pixel quantize count, value read,
                                      \*   error computed, deposits made
  fd_num, fd_res,                     \* floor_divide: argument, <<result>> once called
  heap, allocated,                    \* the engine's blocks: live now, obtained in this call
  alloc_failed,                       \* malloc returns NULL in the coming call
  argc, argv3,                        \* main: argument count, the characters of argv[3]
  image_height, image_width,          \* main: image->height, image->width
  called,                             \* main: <<>>, or the branch taken and its count
  gray_in, gray_res,                  \* rgb_to_grayscale: <<r, g, b>>, <<result>> once called
  an_pc,                              \* analysis.c main: "idle", "open", "run", "row", "done", "failed"
  an_threads, an_i,                   \* analysis.c: loop variables threads, i
  total_time, baseline_time,          \* analysis.c: seconds, as <<numerator, denominator>>
  csv,                                \* analysis.c: the lines written to the result file
  fp_open, an_status,                 \* analysis.c: fp is open, main's return value
  an_results,                         \* history: the result of each system() call
  invoked, averages,                  \* history: the thread count of each system() call,
                                      \*   avg_time of each finished thread count
  ed_pc, ed_y, ed_x,                  \* error_diffusion.c dither_image: position, y, x
  ed_work, ed_output,                 \* error_diffusion.c dither_image: work, output
  rw_program,                         \* "readers_writers" or "testrw"
  writer_indices,                     \* main's array of writer positions
  ranges, total_ranges,               \* the ranges array and its length
  current_range,                      \* the range whose turn it is
  range_mutex, range_semaphore,       \* the mutex's owner, the semaphore's value
  thread_data,                        \* per thread: thread_id, is_writer, range_group
  rw_main, rw_i,                      \* main: position, loop variable i
  rw_pc,                              \* per thread: position in thread_function
  rw_advanced,                        \* history: the threads that advanced current_range
  fk_pc, fk_i,                        \* fork.c, the parent: position, loop variable i
  fk_child,                           \* fork.c: per child index "none", "run", "exited", "reaped"
  fk_said,                            \* history: per child index, the announcements printed
  sv_clock,                           \* server.c: what time(NULL) returns now
  sv_pc,                              \* per client: "none", "loop", "break", "returned"
  last_sent,                          \* per client: the handler's last_sent
  sv_sent,                            \* history: per client, <<now, text>> of every send
  sv_sockets, sv_infos,               \* the open client sockets, the live client_info blocks
  sv_closes, sv_frees                 \* history: per client, close calls and free calls

dvars == <<width, height, num_threads, input, main, st_y, st_x, work, output,
           st_output, prev_output, run, pixel_processed, pixel_mutexes,
           pc, diag, y, err, k, tmp, qcount, qval, qerr, deplog>>
fvars == <<fd_num, fd_res>>
avars == <<heap, allocated, alloc_failed>>
mvars == <<argc, argv3, image_height, image_width, called>>
gvars == <<gray_in, gray_res>>
nvars == <<an_pc, an_threads, an_i, total_time, baseline_time, csv, invoked, averages,
           fp_open, an_status, an_results>>
evars == <<ed_pc, ed_y, ed_x, ed_work, ed_output>>
rvars == <<rw_program, writer_indices, ranges, total_ranges, current_range,
           range_mutex, range_semaphore, thread_data, rw_main, rw_i, rw_pc,
           rw_advanced>>
kvars == <<fk_pc, fk_i, fk_child, fk_said>>
svars == <<sv_clock, sv_pc, last_sent, sv_sent, sv_sockets, sv_infos, sv_closes,
           sv_frees>>
pvars == <<rvars, kvars, svars>>
xvars == <<evars, pvars>>
ovars == <<gvars, nvars, xvars>>
vars == <<dvars, fvars, avars, mvars, ovars>>

Cells == (0 .. height - 1) \X (0 .. width - 1)
Threads == 0 .. num_threads - 1

\* ------------------------------------------------------------ arithmetic

\* C's integer division: truncation toward zero (b > 0).
CDiv(a, b) == IF a >= 0 THEN a \div b ELSE -((-a) \div b)

floor_divide_truncating(numerator, denominator) == CDiv(numerator, denominator)

floor_divide(numerator, denominator) ==
  IF numerator >= 0
    THEN CDiv(numerator, denominator)
    ELSE CDiv(numerator - denominator + 1, denominator)

\* (unsigned char) of an int.
ToUChar(v) == v % UCharRange

NewPixelBelow(old_pixel) == IF old_pixel < Threshold THEN White ELSE 0

NewPixelDark(old_pixel) == 0

NewPixelWhite(old_pixel) == White

NewPixelAtLeast(old_pixel) == IF old_pixel >= Threshold THEN White ELSE 0

NewPixelKeepsDark(old_pixel) == IF old_pixel > Threshold THEN White ELSE old_pixel

\* new_pixel = (old_pixel > 128) ? 255 : 0
NewPixel(old_pixel) == IF old_pixel > Threshold THEN White ELSE 0

\* ------------------------------------------------------------ the kernel

WeightSwapped(j) == CASE j = 1 -> 7 [] j = 2 -> 5 [] j = 3 -> 3 [] OTHER -> 1

\* The four deposits in program order: 7 right, 3 below-left, 5 below, 1 below-right.
Weight(j) == CASE j = 1 -> 7 [] j = 2 -> 3 [] j = 3 -> 5 [] OTHER -> 1

Target(j, yy, xx) ==
  CASE j = 1 -> <<yy, xx + 1>>
    [] j = 2 -> <<yy + 1, xx - 1>>
    [] j = 3 -> <<yy + 1, xx>>
    [] OTHER -> <<yy + 1, xx + 1>>

\* The bounds tests that guard each deposit.
InBounds(j, yy, xx) ==
  CASE j = 1 -> xx + 1 < width
    [] j = 2 -> yy + 1 < height /\ xx - 1 >= 0
    [] j = 3 -> yy + 1 < height
    [] OTHER -> yy + 1 < height /\ xx + 1 < width

Delta(j, e) == floor_divide(e * Weight(j), Denominator)

\* One unlocked deposit of the serial engine.
Deposit(w, j, yy, xx, e) ==
  IF InBounds(j, yy, xx)
    THEN [w EXCEPT ![Target(j, yy, xx)] = @ + Delta(j, e)]
    ELSE w

\* The deposits a source makes, in order, as <<target, amount>>.
RECURSIVE DepositsFrom(_, _, _, _)
DepositsFrom(j, yy, xx, e) ==
  IF j > 4 THEN <<>>
  ELSE (IF InBounds(j, yy, xx) THEN << <<Target(j, yy, xx), Delta(j, e)>> >> ELSE <<>>)
       \o DepositsFrom(j + 1, yy, xx, e)

\* ------------------------------------------------------------ entry state

\* What dither_image_st and dither_image_mt obtain from malloc, by the name of
\* the pointer that holds it (rows and per-pixel cells go with their grid).
StBlocks == {"work"}
MtBlocks == {"work", "pixel_mutexes", "pixel_conditions", "pixel_processed",
             "threads", "thread_data"}

\* dither_image of error_diffusion.c at rest.
NoRaster ==
  /\ ed_pc = "idle" /\ ed_y = 0 /\ ed_x = 0
  /\ ed_work = <<>> /\ ed_output = <<>>

\* The ranged critical-section programs before main runs.
NoRanged ==
  /\ rw_program = "readers_writers"
  /\ writer_indices = <<>> /\ ranges = <<>> /\ total_ranges = 0
  /\ current_range = 0 /\ range_mutex = Free /\ range_semaphore = 0
  /\ thread_data = <<>> /\ rw_main = "idle" /\ rw_i = 0
  /\ rw_pc = <<>> /\ rw_advanced = <<>>

\* fork.c before main runs.
NoFork ==
  /\ fk_pc = "idle" /\ fk_i = 0 /\ fk_child = <<>> /\ fk_said = <<>>

\* server.c before main runs.
NoServer ==
  /\ sv_clock = 0 /\ sv_pc = <<>> /\ last_sent = <<>> /\ sv_sent = <<>>
  /\ sv_sockets = {} /\ sv_infos = {} /\ sv_closes = <<>> /\ sv_frees = <<>>

\* The stand-alone demonstration programs at rest.
NoPrograms == NoRanged /\ NoFork /\ NoServer

\* The programs beside the dithering engines, the grayscale conversion and the
\* benchmark harness, at rest.
NoExtra == NoRaster /\ NoPrograms

\* The benchmark harness before main runs.
NoBenchmark ==
  /\ an_pc = "idle" /\ an_threads = 0 /\ an_i = 0
  /\ total_time = <<0, 1>> /\ baseline_time = <<0, 1>>
  /\ csv = <<>> /\ invoked = <<>> /\ averages = <<>>
  /\ fp_open = FALSE /\ an_status = Unset /\ an_results = <<>>

\* The variables of rgb_to_grayscale and of the benchmark harness at rest.
NoOther ==
  /\ gray_in = <<0, 0, 0>> /\ gray_res = NoResult
  /\ an_pc = "idle" /\ an_threads = 0 /\ an_i = 0
  /\ total_time = <<0, 1>> /\ baseline_time = <<0, 1>>
  /\ csv = <<>> /\ invoked = <<>> /\ averages = <<>>
  /\ fp_open = FALSE /\ an_status = Unset /\ an_results = <<>>
  /\ NoExtra

\* The variables of main while main is not the program under study.
NoMain ==
  /\ argc = 0 /\ argv3 = <<>>
  /\ image_height = 0 /\ image_width = 0
  /\ called = <<>>

EmptyGrid(v) == [c \in Cells |-> v]

TwoTone(h, w, a, b) ==
  [c \in (0 .. h - 1) \X (0 .. w - 1) |-> IF (c[1] + c[2]) % 2 = 0 THEN a ELSE b]

\* Everything but the arguments, as the caller has it before the first engine.
Entry(h, w, n, g) ==
  /\ height = h /\ width = w /\ num_threads = n /\ input = g
  /\ st_y = 0 /\ st_x = 0
  /\ work = g
  /\ output = [c \in DOMAIN g |-> Unset]
  /\ st_output = [c \in DOMAIN g |-> Unset]
  /\ prev_output = [c \in DOMAIN g |-> Unset]
  /\ run = 0
  /\ pixel_processed = [c \in DOMAIN g |-> 0]
  /\ pixel_mutexes = [c \in DOMAIN g |-> Free]
  /\ pc = [t \in 0 .. n - 1 |-> "idle"]
  /\ diag = [t \in 0 .. n - 1 |-> 0]
  /\ y = [t \in 0 .. n - 1 |-> 0]
  /\ err = [t \in 0 .. n - 1 |-> 0]
  /\ k = [t \in 0 .. n - 1 |-> 1]
  /\ tmp = [t \in 0 .. n - 1 |-> 0]
  /\ qcount = [c \in DOMAIN g |-> 0]
  /\ qval = [c \in DOMAIN g |-> 0]
  /\ qerr = [c \in DOMAIN g |-> 0]
  /\ deplog = [c \in DOMAIN g |-> <<>>]

Init ==
  /\ \E h \in 1 .. MaxHeight, w \in 1 .. MaxWidth, n \in 1 .. MaxThreads,
        a \in PixelValues, b \in PixelValues :
       Entry(h, w, n, TwoTone(h, w, a, b))
  /\ main = "st"
  /\ fd_num = 0 /\ fd_res = NoResult
  /\ heap = StBlocks /\ allocated = StBlocks /\ alloc_failed = FALSE
  /\ NoMain
  /\ NoOther

\* ------------------------------------------------------- dither_image_st

\* One iteration of the inner loop of dither_image_st, pixel (st_y, st_x).
StStep ==
  /\ main = "st"
  /\ LET c == <<st_y, st_x>>
         old_pixel == work[c]
         new_pixel == NewPixel(old_pixel)
         e == old_pixel - new_pixel
     IN /\ output' = [output EXCEPT ![c] = ToUChar(new_pixel)]
        /\ work' = Deposit(Deposit(Deposit(Deposit(work, 1, st_y, st_x, e),
                                           2, st_y, st_x, e), 3, st_y, st_x, e),
                           4, st_y, st_x, e)
        /\ qcount' = [qcount EXCEPT ![c] = @ + 1]
        /\ qval' = [qval EXCEPT ![c] = old_pixel]
        /\ qerr' = [qerr EXCEPT ![c] = e]
        /\ deplog' = [deplog EXCEPT ![c] = DepositsFrom(1, st_y, st_x, e)]
  /\ IF st_x + 1 < width
       THEN st_x' = st_x + 1 /\ st_y' = st_y /\ main' = main
       ELSE /\ st_x' = 0 /\ st_y' = st_y + 1
            /\ main' = IF st_y + 1 < height THEN main ELSE "st_done"
  /\ heap' = IF st_x + 1 < width \/ st_y + 1 < height THEN heap ELSE heap \ StBlocks
  /\ UNCHANGED <<width, height, num_threads, input, st_output, prev_output, run,
                 pixel_processed, pixel_mutexes, pc, diag, y, err, k, tmp>>
  /\ UNCHANGED <<ovars, fvars, mvars, allocated, alloc_failed>>

\* ------------------------------------------------------- dither_image_mt

\* dither_image_mt up to the last pthread_create: the work grid is a copy of
\* the input, every flag is 0, every mutex is free, every worker is started.
StartMt ==
  /\ work' = input
  /\ output' = EmptyGrid(Unset)
  /\ pixel_processed' = EmptyGrid(0)
  /\ pixel_mutexes' = EmptyGrid(Free)
  /\ pc' = [t \in Threads |-> "loop"]
  /\ diag' = [t \in Threads |-> 0]
  /\ y' = [t \in Threads |-> 0]
  /\ err' = [t \in Threads |-> 0]
  /\ k' = [t \in Threads |-> 1]
  /\ tmp' = [t \in Threads |-> 0]
  /\ qcount' = EmptyGrid(0)
  /\ qval' = EmptyGrid(0)
  /\ qerr' = EmptyGrid(0)
  /\ deplog' = EmptyGrid(<<>>)
  /\ main' = "mt"
  /\ run' = run + 1
  /\ heap' = MtBlocks
  /\ allocated' = MtBlocks
  /\ UNCHANGED <<width, height, num_threads, input, st_y, st_x>>
  /\ UNCHANGED <<ovars, fvars, mvars, alloc_failed>>

\* The caller, done with the serial engine, calls the wavefront engine.
CallMt ==
  /\ main = "st_done"
  /\ st_output' = output
  /\ prev_output' = prev_output
  /\ StartMt

\* The caller calls the wavefront engine a second time on the same input.
CallMtAgain ==
  /\ main = "mt_done"
  /\ run = 1
  /\ prev_output' = output
  /\ st_output' = st_output
  /\ StartMt

JoinedNone == TRUE

\* The pthread_join loop has returned from every join: every worker has returned.
Joined == \A t \in Threads : pc[t] = "done"

\* The pthread_join loop and the cleanup: every mutex and condition is
\* destroyed, every block is freed.
JoinAll ==
  /\ main = "mt"
  /\ Joined
  /\ main' = "mt_done"
  /\ heap' = heap \ MtBlocks
  /\ UNCHANGED <<width, height, num_threads, input, st_y, st_x, work, output,
                 st_output, prev_output, run, pixel_processed, pixel_mutexes,
                 pc, diag, y, err, k, tmp, qcount, qval, qerr, deplog>>
  /\ UNCHANGED <<ovars, fvars, mvars, allocated, alloc_failed>>

\* ----------------------------------------------------- process_wavefront

X(t) == diag[t] - y[t]
Cell(t) == <<y[t], X(t)>>

OwnsOther(t, d) == d % num_threads = (t + 1) % num_threads

OwnsEvery(t, d) == TRUE

\* diag % num_threads == thread_id
Owns(t, d) == d % num_threads = t

\* The iterations of the two nested loops, from (d0, y0) on, that reach the body.
Positions(t, d0, y0) ==
  {p \in (0 .. width + height - 2) \X (0 .. height - 1) :
     /\ Owns(t, p[1])
     /\ p[1] - p[2] >= 0 /\ p[1] - p[2] < width
     /\ (p[1] > d0 \/ (p[1] = d0 /\ p[2] >= y0))}

FirstFromBelow(S) == CHOOSE p \in S : \A q \in S : p[1] < q[1] \/ (p[1] = q[1] /\ p[2] >= q[2])

First(S) == CHOOSE p \in S : \A q \in S : p[1] < q[1] \/ (p[1] = q[1] /\ p[2] <= q[2])

SecondWaitAlways(yy, xx) == "w2"

SecondWaitSkipped(yy, xx) == "quant"

\* Where the body goes after the wait on the top-right neighbour: if (x > 0).
SecondWait(yy, xx) == IF xx > 0 THEN "w2" ELSE "quant"

\* Where the body starts: if (y > 0 && x + 1 < width).
FirstWait(yy, xx) == IF yy > 0 /\ xx + 1 < width THEN "w1" ELSE SecondWait(yy, xx)

\* The pixel a worker in one of the two waits is waiting for.
WaitCell(t) ==
  IF pc[t] \in {"w1", "w1_chk", "w1_wait"}
    THEN <<y[t] - 1, X(t) + 1>>
    ELSE <<y[t], X(t) - 1>>

\* The first deposit, from the j-th on, whose bounds test passes; 5 when none does.
RECURSIVE NextDep(_, _, _)
NextDep(j, yy, xx) ==
  IF j > 4 THEN 5
  ELSE IF InBounds(j, yy, xx) THEN j ELSE NextDep(j + 1, yy, xx)

AfterDepSkipped(j) == "mark"

\* After the bounds tests: on to the next deposit, or to the completion signal.
AfterDep(j) == IF j <= 4 THEN "dep" ELSE "mark"

CanLockAlways(c) == TRUE

\* pthread_mutex_lock returns only when the mutex is free.
CanLock(c) == pixel_mutexes[c] = Free

UnlockForgotten(c) == pixel_mutexes

\* pthread_mutex_unlock, and the release of the mutex inside pthread_cond_wait.
Unlock(c) == [pixel_mutexes EXCEPT ![c] = Free]

WakeNone(c) == pc

\* pthread_cond_broadcast on pixel c's condition: every waiter goes on to
\* take the mutex again and test the flag again.
WakeAll(c) ==
  [u \in Threads |->
     IF pc[u] = "w1_wait" /\ WaitCell(u) = c THEN "w1"
     ELSE IF pc[u] = "w2_wait" /\ WaitCell(u) = c THEN "w2"
     ELSE pc[u]]

\* The loop heads: the next owned diagonal and the next y with x inside the row,
\* or the end of the outer loop and return.
Loop(t) ==
  /\ main = "mt"
  /\ pc[t] = "loop"
  /\ LET S == Positions(t, diag[t], y[t])
     IN IF S = {}
          THEN /\ pc' = [pc EXCEPT ![t] = "done"]
               /\ diag' = [diag EXCEPT ![t] = width + height - 1]
               /\ y' = y
          ELSE LET p == First(S)
               IN /\ diag' = [diag EXCEPT ![t] = p[1]]
                  /\ y' = [y EXCEPT ![t] = p[2]]
                  /\ pc' = [pc EXCEPT ![t] = FirstWait(p[2], p[1] - p[2])]
  /\ UNCHANGED <<width, height, num_threads, input, main, st_y, st_x, work, output,
                 st_output, prev_output, run, pixel_processed, pixel_mutexes,
                 err, k, tmp, qcount, qval, qerr, deplog>>
  /\ UNCHANGED <<ovars, fvars, avars, mvars>>

\* pthread_mutex_lock on the awaited neighbour's mutex (also on waking up).
LockWait(t) ==
  /\ main = "mt"
  /\ pc[t] \in {"w1", "w2"}
  /\ CanLock(WaitCell(t))
  /\ pixel_mutexes' = [pixel_mutexes EXCEPT ![WaitCell(t)] = t]
  /\ pc' = [pc EXCEPT ![t] = IF pc[t] = "w1" THEN "w1_chk" ELSE "w2_chk"]
  /\ UNCHANGED <<width, height, num_threads, input, main, st_y, st_x, work, output,
                 st_output, prev_output, run, pixel_processed,
                 diag, y, err, k, tmp, qcount, qval, qerr, deplog>>
  /\ UNCHANGED <<ovars, fvars, avars, mvars>>

\* while (!processed) pthread_cond_wait, else pthread_mutex_unlock.
CheckWait(t) ==
  /\ main = "mt"
  /\ pc[t] \in {"w1_chk", "w2_chk"}
  /\ pixel_mutexes' = Unlock(WaitCell(t))
  /\ IF pixel_processed[WaitCell(t)] = 0
       THEN pc' = [pc EXCEPT ![t] = IF pc[t] = "w1_chk" THEN "w1_wait" ELSE "w2_wait"]
       ELSE pc' = [pc EXCEPT ![t] = IF pc[t] = "w1_chk" THEN SecondWait(y[t], X(t))
                                                        ELSE "quant"]
  /\ UNCHANGED <<width, height, num_threads, input, main, st_y, st_x, work, output,
                 st_output, prev_output, run, pixel_processed,
                 diag, y, err, k, tmp, qcount, qval, qerr, deplog>>
  /\ UNCHANGED <<ovars, fvars, avars, mvars>>

\* old_pixel = work[y][x] (no mutex held), output[y][x] = new_pixel, err.
Quantize(t) ==
  /\ main = "mt"
  /\ pc[t] = "quant"
  /\ LET c == Cell(t)
         old_pixel == work[c]
         new_pixel == NewPixel(old_pixel)
         j == NextDep(1, y[t], X(t))
     IN /\ output' = [output EXCEPT ![c] = ToUChar(new_pixel)]
        /\ err' = [err EXCEPT ![t] = old_pixel - new_pixel]
        /\ qcount' = [qcount EXCEPT ![c] = @ + 1]
        /\ qval' = [qval EXCEPT ![c] = old_pixel]
        /\ qerr' = [qerr EXCEPT ![c] = old_pixel - new_pixel]
        /\ deplog' = [deplog EXCEPT ![c] = <<>>]
        /\ k' = [k EXCEPT ![t] = j]
        /\ pc' = [pc EXCEPT ![t] = AfterDep(j)]
  /\ UNCHANGED <<width, height, num_threads, input, main, st_y, st_x, work,
                 st_output, prev_output, run, pixel_processed, pixel_mutexes,
                 diag, y, tmp>>
  /\ UNCHANGED <<ovars, fvars, avars, mvars>>

\* pthread_mutex_lock on the k-th target, and the read of work[target] by +=.
DepLock(t) ==
  /\ main = "mt"
  /\ pc[t] = "dep"
  /\ LET c == Target(k[t], y[t], X(t))
     IN /\ CanLock(c)
        /\ pixel_mutexes' = [pixel_mutexes EXCEPT ![c] = t]
        /\ tmp' = [tmp EXCEPT ![t] = work[c]]
  /\ pc' = [pc EXCEPT ![t] = "dep_w"]
  /\ UNCHANGED <<width, height, num_threads, input, main, st_y, st_x, work, output,
                 st_output, prev_output, run, pixel_processed,
                 diag, y, err, k, qcount, qval, qerr, deplog>>
  /\ UNCHANGED <<ovars, fvars, avars, mvars>>

\* The write of work[target] by +=, pthread_mutex_unlock, and the bounds tests
\* up to the next deposit.
DepWrite(t) ==
  /\ main = "mt"
  /\ pc[t] = "dep_w"
  /\ LET c == Target(k[t], y[t], X(t))
         d == Delta(k[t], err[t])
         j == NextDep(k[t] + 1, y[t], X(t))
     IN /\ work' = [work EXCEPT ![c] = tmp[t] + d]
        /\ pixel_mutexes' = Unlock(c)
        /\ deplog' = [deplog EXCEPT ![Cell(t)] = Append(@, <<c, d>>)]
        /\ k' = [k EXCEPT ![t] = j]
        /\ pc' = [pc EXCEPT ![t] = AfterDep(j)]
  /\ UNCHANGED <<width, height, num_threads, input, main, st_y, st_x, output,
                 st_output, prev_output, run, pixel_processed,
                 diag, y, err, tmp, qcount, qval, qerr>>
  /\ UNCHANGED <<ovars, fvars, avars, mvars>>

\* pthread_mutex_lock on the worker's own pixel.
MarkLock(t) ==
  /\ main = "mt"
  /\ pc[t] = "mark"
  /\ CanLock(Cell(t))
  /\ pixel_mutexes' = [pixel_mutexes EXCEPT ![Cell(t)] = t]
  /\ pc' = [pc EXCEPT ![t] = "mark_set"]
  /\ UNCHANGED <<width, height, num_threads, input, main, st_y, st_x, work, output,
                 st_output, prev_output, run, pixel_processed,
                 diag, y, err, k, tmp, qcount, qval, qerr, deplog>>
  /\ UNCHANGED <<ovars, fvars, avars, mvars>>

\* processed = 1, pthread_cond_broadcast, pthread_mutex_unlock, y++.
MarkSet(t) ==
  /\ main = "mt"
  /\ pc[t] = "mark_set"
  /\ pixel_processed' = [pixel_processed EXCEPT ![Cell(t)] = 1]
  /\ pc' = [WakeAll(Cell(t)) EXCEPT ![t] = "loop"]
  /\ pixel_mutexes' = Unlock(Cell(t))
  /\ y' = [y EXCEPT ![t] = @ + 1]
  /\ UNCHANGED <<width, height, num_threads, input, main, st_y, st_x, work, output,
                 st_output, prev_output, run,
                 diag, err, k, tmp, qcount, qval, qerr, deplog>>
  /\ UNCHANGED <<ovars, fvars, avars, mvars>>

Worker(t) ==
  \/ Loop(t)
  \/ LockWait(t)
  \/ CheckWait(t)
  \/ Quantize(t)
  \/ DepLock(t)
  \/ DepWrite(t)
  \/ MarkLock(t)
  \/ MarkSet(t)

Caller == StStep \/ CallMt \/ JoinAll

Next ==
  \/ StStep
  \/ CallMt
  \/ JoinAll
  \/ \E t \in Threads : Loop(t)
  \/ \E t \in Threads : LockWait(t)
  \/ \E t \in Threads : CheckWait(t)
  \/ \E t \in Threads : Quantize(t)
  \/ \E t \in Threads : DepLock(t)
  \/ \E t \in Threads : DepWrite(t)
  \/ \E t \in Threads : MarkLock(t)
  \/ \E t \in Threads : MarkSet(t)

Spec == Init /\ [][Next]_vars

\* The operating system schedules every runnable thread again and again.
FairSpec ==
  /\ Spec
  /\ WF_vars(Caller)
  /\ \A t \in 0 .. MaxThreads - 1 : WF_vars(t \in Threads /\ Worker(t))

\* The caller runs the wavefront engine twice on the same input.
NextRerun == Next \/ CallMtAgain

SpecRerun == Init /\ [][NextRerun]_vars

\* ------------------------------------------------- direct engine calls

\* Sides an engine can be called with that make an empty grid.
DegenerateSides == {-1, 0}

\* A caller about to call one engine with any sides, and whether malloc
\* will return NULL to dither_image_mt.
InitCall ==
  /\ \E h \in DegenerateSides \cup (1 .. MaxHeight),
        w \in DegenerateSides \cup (1 .. MaxWidth),
        n \in 1 .. MaxThreads, a \in PixelValues, b \in PixelValues :
       Entry(h, w, n, TwoTone(h, w, a, b))
  /\ main = "call"
  /\ fd_num = 0 /\ fd_res = NoResult
  /\ heap = {} /\ allocated = {}
  /\ alloc_failed \in BOOLEAN
  /\ NoMain
  /\ NoOther

\* dither_image_st from its entry to the first pixel: the work grid is
\* allocated and filled with no test of the sides; with an empty grid the
\* loops run no iteration and the grid is freed.
CallSt ==
  /\ main = "call"
  /\ allocated' = StBlocks
  /\ work' = input
  /\ IF height > 0 /\ width > 0
       THEN main' = "st" /\ heap' = StBlocks
       ELSE main' = "st_done" /\ heap' = {}
  /\ UNCHANGED <<width, height, num_threads, input, st_y, st_x, output,
                 st_output, prev_output, run, pixel_processed, pixel_mutexes,
                 pc, diag, y, err, k, tmp, qcount, qval, qerr, deplog>>
  /\ UNCHANGED <<ovars, fvars, mvars, alloc_failed>>

\* The store through a NULL grid pointer ends the process.
NullDereference ==
  /\ height > 0
  /\ main' = "crashed"
  /\ UNCHANGED <<width, height, num_threads, input, st_y, st_x, work, output,
                 run, pixel_processed, pixel_mutexes,
                 pc, diag, y, err, k, tmp, qcount, qval, qerr, deplog>>
  /\ UNCHANGED <<ovars, fvars, avars, mvars>>

\* dither_image_mt called directly.  No result of malloc is tested and no side
\* is tested: after a failed allocation the stores through the pointer are
\* undefined, and the call either ends in a fault or goes on to start the workers.
EnterMt ==
  /\ main = "call"
  /\ st_output' = st_output
  /\ prev_output' = prev_output
  /\ IF alloc_failed THEN NullDereference \/ StartMt ELSE StartMt

NextCall ==
  \/ CallSt
  \/ EnterMt
  \/ StStep
  \/ JoinAll
  \/ \E t \in Threads : Loop(t)
  \/ \E t \in Threads : LockWait(t)
  \/ \E t \in Threads : CheckWait(t)
  \/ \E t \in Threads : Quantize(t)
  \/ \E t \in Threads : DepLock(t)
  \/ \E t \in Threads : DepWrite(t)
  \/ \E t \in Threads : MarkLock(t)
  \/ \E t \in Threads : MarkSet(t)

SpecCall == InitCall /\ [][NextCall]_vars

\* ------------------------------------------------------------------ main

\* The pixel count from which main takes the wavefront branch.
MinPixelsForMt == 10000

\* What the command line holds as argv[3], character by character.
CountArguments ==
  {<<"-", "1">>, <<"0">>, <<"1">>, <<"2">>, <<"3">>, <<"1", "0">>,
   <<" ", "2">>, <<"+", "2">>, <<"2", "x">>, <<"x">>, <<>>}

\* The sides of the images read: around the square root of MinPixelsForMt.
ImageSides == {1, 99, 100, 101}

DecimalDigits == <<"0", "1", "2", "3", "4", "5", "6", "7", "8", "9">>
IsDigit(ch) == \E i \in 1 .. 10 : DecimalDigits[i] = ch
DigitValue(ch) == (CHOOSE i \in 1 .. 10 : DecimalDigits[i] = ch) - 1

\* The value of the longest run of digits s starts with, after acc.
RECURSIVE AtoiDigits(_, _)
AtoiDigits(s, acc) ==
  IF s = <<>> \/ ~IsDigit(Head(s)) THEN acc
  ELSE AtoiDigits(Tail(s), acc * 10 + DigitValue(Head(s)))

\* atoi: white space is skipped, one sign is read, then digits up to the first
\* character that is none; 0 when there is no digit.
RECURSIVE atoi(_)
atoi(s) ==
  IF s = <<>> THEN 0
  ELSE IF Head(s) = " " THEN atoi(Tail(s))
  ELSE IF Head(s) = "-" THEN 0 - AtoiDigits(Tail(s), 0)
  ELSE IF Head(s) = "+" THEN AtoiDigits(Tail(s), 0)
  ELSE AtoiDigits(s, 0)

UseSerialUpTo(n, h, w) == n <= 1 \/ h * w <= MinPixelsForMt

\* if (num_threads <= 1 || image->height * image->width < 10000)
UseSerial(n, h, w) == n <= 1 \/ h * w < MinPixelsForMt

\* main has been started on a readable image; the dithering variables are at rest.
InitMain ==
  /\ Entry(1, 1, 1, TwoTone(1, 1, 0, 0))
  /\ main = "main"
  /\ fd_num = 0 /\ fd_res = NoResult
  /\ heap = {} /\ allocated = {} /\ alloc_failed = FALSE
  /\ argc \in {2, 3, 4, 5}
  /\ argv3 \in (IF argc >= 4 THEN CountArguments ELSE {<<>>})
  /\ image_height \in ImageSides
  /\ image_width \in ImageSides
  /\ called = <<>>
  /\ NoOther

\* main up to its call of an engine: the usage exit, the worker count, the
\* branch.  The work of the engine called is what Spec explores.
Main ==
  /\ main = "main"
  /\ called = <<>>
  /\ IF argc # 3 /\ argc # 4
       THEN called' = <<"usage">>
       ELSE LET n == IF argc = 4 THEN atoi(argv3) ELSE 1
            IN called' = IF UseSerial(n, image_height, image_width)
                           THEN <<"dither_image_st">>
                           ELSE <<"dither_image_mt", n>>
  /\ UNCHANGED <<argc, argv3, image_height, image_width>>
  /\ UNCHANGED <<dvars, fvars, avars, ovars>>

NextMain == Main

SpecMain == InitMain /\ [][NextMain]_vars

\* ------------------------------------------------------ one-valued grids

\* A light gray, between the threshold and white.
GrayValues == {200}

\* The caller with a grid whose pixels all hold one light gray.
InitGray ==
  /\ \E h \in 1 .. MaxHeight, w \in 1 .. MaxWidth, n \in 1 .. MaxThreads,
        a \in GrayValues :
       Entry(h, w, n, TwoTone(h, w, a, a))
  /\ main = "st"
  /\ fd_num = 0 /\ fd_res = NoResult
  /\ heap = StBlocks /\ allocated = StBlocks /\ alloc_failed = FALSE
  /\ NoMain
  /\ NoOther

SpecGray == InitGray /\ [][Next]_vars

\* ------------------------------------------- error_diffusion.c dither_image

ed_floor_divide(numerator, denominator) ==
  IF numerator >= 0
    THEN CDiv(numerator, denominator)
    ELSE CDiv(numerator - denominator + 1, denominator)

\* work[yy][xx] += d
EdAdd(w, yy, xx, d) == [w EXCEPT ![<<yy, xx>>] = @ + d]

\* The caller of dither_image_st and, beside it, a caller of dither_image of
\* error_diffusion.c on the same input, each after the copy into its work grid.
InitRaster ==
  /\ \E h \in 1 .. MaxHeight, w \in 1 .. MaxWidth, a \in PixelValues, b \in PixelValues :
       Entry(h, w, 1, TwoTone(h, w, a, b))
  /\ main = "st"
  /\ fd_num = 0 /\ fd_res = NoResult
  /\ heap = StBlocks /\ allocated = StBlocks /\ alloc_failed = FALSE
  /\ NoMain
  /\ gray_in = <<0, 0, 0>> /\ gray_res = NoResult
  /\ an_pc = "idle" /\ an_threads = 0 /\ an_i = 0
  /\ total_time = <<0, 1>> /\ baseline_time = <<0, 1>>
  /\ csv = <<>> /\ invoked = <<>> /\ averages = <<>>
  /\ fp_open = FALSE /\ an_status = Unset /\ an_results = <<>>
  /\ ed_pc = "run" /\ ed_y = 0 /\ ed_x = 0
  /\ ed_work = input
  /\ ed_output = [c \in DOMAIN input |-> Unset]
  /\ NoPrograms

\* One iteration of the inner loop of dither_image, pixel (ed_y, ed_x).
EdStep ==
  /\ ed_pc = "run"
  /\ LET old_pixel == ed_work[<<ed_y, ed_x>>]
         new_pixel == IF old_pixel > 128 THEN 255 ELSE 0
         e == old_pixel - new_pixel
         w1 == IF ed_x + 1 < width
                 THEN EdAdd(ed_work, ed_y, ed_x + 1, ed_floor_divide(e * 7, 16))
                 ELSE ed_work
         w2 == IF ed_y + 1 < height /\ ed_x - 1 >= 0
                 THEN EdAdd(w1, ed_y + 1, ed_x - 1, ed_floor_divide(e * 3, 16))
                 ELSE w1
         w3 == IF ed_y + 1 < height
                 THEN EdAdd(w2, ed_y + 1, ed_x, ed_floor_divide(e * 5, 16))
                 ELSE w2
         w4 == IF ed_y + 1 < height /\ ed_x + 1 < width
                 THEN EdAdd(w3, ed_y + 1, ed_x + 1, ed_floor_divide(e * 1, 16))
                 ELSE w3
     IN /\ ed_output' = [ed_output EXCEPT ![<<ed_y, ed_x>>] = new_pixel % 256]
        /\ ed_work' = w4
  /\ IF ed_x + 1 < width
       THEN ed_x' = ed_x + 1 /\ ed_y' = ed_y /\ ed_pc' = ed_pc
       ELSE /\ ed_x' = 0 /\ ed_y' = ed_y + 1
            /\ ed_pc' = IF ed_y + 1 < height THEN ed_pc ELSE "done"
  /\ UNCHANGED <<dvars, fvars, avars, mvars, gvars, nvars, pvars>>

NextRaster ==
  \/ StStep
  \/ EdStep

SpecRaster == InitRaster /\ [][NextRaster]_vars

\* --------------------------------------- readers_writers.c and testrw.c

\* The two programs' thread and writer counts (1000 and 10 in both sources),
\* scaled down.
TOTAL_THREADS == 5
WRITER_THREADS == 2

RwThreadIds == 0 .. TOTAL_THREADS - 1

\* What the selection loop of main can leave in writer_indices: WRITER_THREADS
\* distinct positions in any order.
WriterPlacements ==
  {w \in [1 .. WRITER_THREADS -> RwThreadIds] :
     \A a, b \in 1 .. WRITER_THREADS : a # b => w[a] # w[b]}

\* The bubble sort of initialize_ranges; writer_indices[j] of the source is
\* w[j + 1] here.
RECURSIVE BubbleInner(_, _, _)
BubbleInner(w, j, last) ==
  IF j >= last
    THEN w
    ELSE BubbleInner(IF w[j + 1] > w[j + 2]
                       THEN [w EXCEPT ![j + 1] = w[j + 2], ![j + 2] = w[j + 1]]
                       ELSE w,
                     j + 1, last)

RECURSIVE BubbleOuter(_, _)
BubbleOuter(w, i) ==
  IF i >= WRITER_THREADS - 1
    THEN w
    ELSE BubbleOuter(BubbleInner(w, 0, WRITER_THREADS - i - 1), i + 1)

\* First pass of initialize_ranges: the count of ranges.
RECURSIVE CountRanges(_, _, _, _)
CountRanges(w, i, start_range, count) ==
  IF i >= WRITER_THREADS
    THEN IF start_range < TOTAL_THREADS THEN count + 1 ELSE count
    ELSE CountRanges(w, i + 1, w[i + 1] + 1,
                     (IF w[i + 1] > start_range THEN count + 1 ELSE count) + 1)

ReaderRange(id, first, last) ==
  [range_id |-> id, start_thread |-> first, end_thread |-> last,
   is_writer_range |-> 0, writer_id |-> -1]

WriterRange(id, writer_pos) ==
  [range_id |-> id, start_thread |-> writer_pos, end_thread |-> writer_pos,
   is_writer_range |-> 1, writer_id |-> writer_pos]

\* Second pass of initialize_ranges: the entries written, in order; ranges[g]
\* of the source is element g + 1 of the sequence, range_count is Len(rs).
RECURSIVE FillRanges(_, _, _, _)
FillRanges(w, i, start_range, rs) ==
  IF i >= WRITER_THREADS
    THEN IF start_range < TOTAL_THREADS
           THEN Append(rs, ReaderRange(Len(rs), start_range, TOTAL_THREADS - 1))
           ELSE rs
    ELSE LET writer_pos == w[i + 1]
             before == IF writer_pos > start_range
                         THEN Append(rs, ReaderRange(Len(rs), start_range, writer_pos - 1))
                         ELSE rs
         IN FillRanges(w, i + 1, writer_pos + 1,
                       Append(before, WriterRange(Len(before), writer_pos)))

\* The loop of determine_range_group from writer i on.
RECURSIVE GroupFrom(_, _, _, _, _)
GroupFrom(thread_id, w, i, group, start_range) ==
  IF i >= WRITER_THREADS
    THEN IF thread_id >= start_range /\ thread_id < TOTAL_THREADS THEN group ELSE -1
    ELSE LET writer_pos == w[i + 1]
         IN IF thread_id >= start_range /\ thread_id < writer_pos
              THEN group
              ELSE IF thread_id = writer_pos
                     THEN group + 1
                     ELSE GroupFrom(thread_id, w, i + 1, group + 2, writer_pos + 1)

determine_range_group(thread_id, w) == GroupFrom(thread_id, w, 0, 0, 0)

\* main's test for thread i being a writer.
IsWriter(i, w) == IF \E j \in 1 .. WRITER_THREADS : w[j] = i THEN 1 ELSE 0

\* What a read of ranges[g] can give: the entry, or anything when g is outside
\* the array.
RangeRead(g) ==
  IF g >= 0 /\ g < Len(ranges)
    THEN {ranges[g + 1]}
    ELSE {ReaderRange(g, a, b) : a \in RwThreadIds, b \in RwThreadIds}
           \cup {WriterRange(g, a) : a \in RwThreadIds}

\* A test on current_range that every thread passes.
IsTurnAlways(my_range) == TRUE

\* The test of both ifs on current_range in thread_function.
IsTurn(my_range) == current_range = my_range

\* The test for the thread being the last one of its range.
IsLast(data, rg) ==
  \/ data.is_writer = 1 /\ data.thread_id = rg.writer_id
  \/ data.is_writer = 0 /\ data.thread_id = rg.end_thread

\* The dithering programs, the grayscale conversion and the benchmark
\* harness at rest.
NoDithering ==
  /\ Entry(1, 1, 1, TwoTone(1, 1, 0, 0))
  /\ main = "idle"
  /\ fd_num = 0 /\ fd_res = NoResult
  /\ heap = {} /\ allocated = {} /\ alloc_failed = FALSE
  /\ NoMain
  /\ gray_in = <<0, 0, 0>> /\ gray_res = NoResult
  /\ NoBenchmark
  /\ NoRaster

\* main after the writer positions are chosen, of either program.
InitRanged ==
  /\ NoDithering
  /\ NoFork /\ NoServer
  /\ rw_program \in {"readers_writers", "testrw"}
  /\ writer_indices \in WriterPlacements
  /\ ranges = <<>> /\ total_ranges = 0
  /\ current_range = 0 /\ range_mutex = Free /\ range_semaphore = 0
  /\ thread_data = [t \in RwThreadIds |->
                      [thread_id |-> Unset, is_writer |-> 0, range_group |-> Unset]]
  /\ rw_main = "ranges" /\ rw_i = 0
  /\ rw_pc = [t \in RwThreadIds |-> "none"]
  /\ rw_advanced = <<>>

\* initialize_ranges: the sort in place, the count, the array.
InitializeRanges ==
  /\ rw_main = "ranges"
  /\ LET sorted == BubbleOuter(writer_indices, 0)
     IN /\ writer_indices' = sorted
        /\ total_ranges' = CountRanges(sorted, 0, 0, 0)
        /\ ranges' = FillRanges(sorted, 0, 0, <<>>)
  /\ rw_main' = "create"
  /\ UNCHANGED <<rw_program, current_range, range_mutex, range_semaphore,
                 thread_data, rw_i, rw_pc, rw_advanced>>
  /\ UNCHANGED <<dvars, fvars, avars, mvars, gvars, nvars, evars, kvars, svars>>

\* One iteration of main's creation loop: thread_data[i] is filled and the
\* thread is started.
CreateThread ==
  /\ rw_main = "create"
  /\ thread_data' = [thread_data EXCEPT ![rw_i] =
                       [thread_id |-> rw_i,
                        is_writer |-> IsWriter(rw_i, writer_indices),
                        range_group |-> determine_range_group(rw_i, writer_indices)]]
  /\ rw_pc' = [rw_pc EXCEPT ![rw_i] = "wait"]
  /\ rw_i' = rw_i + 1
  /\ rw_main' = IF rw_i + 1 < TOTAL_THREADS THEN "create" ELSE "post"
  /\ UNCHANGED <<rw_program, writer_indices, ranges, total_ranges, current_range,
                 range_mutex, range_semaphore, rw_advanced>>
  /\ UNCHANGED <<dvars, fvars, avars, mvars, gvars, nvars, evars, kvars, svars>>

\* main's sem_post after the creation loop.
PostStart ==
  /\ rw_main = "post"
  /\ range_semaphore' = range_semaphore + 1
  /\ rw_main' = "join"
  /\ rw_i' = 0
  /\ UNCHANGED <<rw_program, writer_indices, ranges, total_ranges, current_range,
                 range_mutex, thread_data, rw_pc, rw_advanced>>
  /\ UNCHANGED <<dvars, fvars, avars, mvars, gvars, nvars, evars, kvars, svars>>

\* One pthread_join of main's join loop.
JoinThread ==
  /\ rw_main = "join"
  /\ rw_pc[rw_i] = "done"
  /\ rw_i' = rw_i + 1
  /\ rw_main' = IF rw_i + 1 < TOTAL_THREADS THEN "join" ELSE "summary"
  /\ UNCHANGED <<rw_program, writer_indices, ranges, total_ranges, current_range,
                 range_mutex, range_semaphore, thread_data, rw_pc, rw_advanced>>
  /\ UNCHANGED <<dvars, fvars, avars, mvars, gvars, nvars, evars, kvars, svars>>

\* print_range_summary, the cleanup and main's return.
PrintSummary ==
  /\ rw_main = "summary"
  /\ rw_main' = "done"
  /\ UNCHANGED <<rw_program, writer_indices, ranges, total_ranges, current_range,
                 range_mutex, range_semaphore, thread_data, rw_i, rw_pc, rw_advanced>>
  /\ UNCHANGED <<dvars, fvars, avars, mvars, gvars, nvars, evars, kvars, svars>>

\* pthread_mutex_lock at the head of the wait loop.
LockTurn(t) ==
  /\ rw_pc[t] = "wait"
  /\ range_mutex = Free
  /\ range_mutex' = t
  /\ rw_pc' = [rw_pc EXCEPT ![t] = "locked"]
  /\ UNCHANGED <<rw_program, writer_indices, ranges, total_ranges, current_range,
                 range_semaphore, thread_data, rw_main, rw_i, rw_advanced>>
  /\ UNCHANGED <<dvars, fvars, avars, mvars, gvars, nvars, evars, kvars, svars>>

\* The test of the wait loop under the mutex, and the unlock: on its turn the
\* thread goes to its critical section; otherwise readers_writers.c pauses and
\* tries again, testrw.c goes to sem_wait.
CheckTurn(t) ==
  /\ rw_pc[t] = "locked"
  /\ range_mutex' = Free
  /\ rw_pc' = [rw_pc EXCEPT ![t] =
                 IF IsTurn(thread_data[t].range_group)
                   THEN "cs"
                   ELSE IF rw_program = "testrw" THEN "sem_wait" ELSE "wait"]
  /\ UNCHANGED <<rw_program, writer_indices, ranges, total_ranges, current_range,
                 range_semaphore, thread_data, rw_main, rw_i, rw_advanced>>
  /\ UNCHANGED <<dvars, fvars, avars, mvars, gvars, nvars, evars, kvars, svars>>

\* testrw.c: sem_wait in the wait loop.
SemWait(t) ==
  /\ rw_pc[t] = "sem_wait"
  /\ range_semaphore > 0
  /\ range_semaphore' = range_semaphore - 1
  /\ rw_pc' = [rw_pc EXCEPT ![t] = "sem_post"]
  /\ UNCHANGED <<rw_program, writer_indices, ranges, total_ranges, current_range,
                 range_mutex, thread_data, rw_main, rw_i, rw_advanced>>
  /\ UNCHANGED <<dvars, fvars, avars, mvars, gvars, nvars, evars, kvars, svars>>

\* testrw.c: sem_post and usleep in the wait loop.
SemPost(t) ==
  /\ rw_pc[t] = "sem_post"
  /\ range_semaphore' = range_semaphore + 1
  /\ rw_pc' = [rw_pc EXCEPT ![t] = "wait"]
  /\ UNCHANGED <<rw_program, writer_indices, ranges, total_ranges, current_range,
                 range_mutex, thread_data, rw_main, rw_i, rw_advanced>>
  /\ UNCHANGED <<dvars, fvars, avars, mvars, gvars, nvars, evars, kvars, svars>>

\* The critical section: the one-second wait between start_cs and end_cs.
EndCriticalSection(t) ==
  /\ rw_pc[t] = "cs"
  /\ rw_pc' = [rw_pc EXCEPT ![t] = "after"]
  /\ UNCHANGED <<rw_program, writer_indices, ranges, total_ranges, current_range,
                 range_mutex, range_semaphore, thread_data, rw_main, rw_i, rw_advanced>>
  /\ UNCHANGED <<dvars, fvars, avars, mvars, gvars, nvars, evars, kvars, svars>>

\* pthread_mutex_lock after the critical section.
LockAdvance(t) ==
  /\ rw_pc[t] = "after"
  /\ range_mutex = Free
  /\ range_mutex' = t
  /\ rw_pc' = [rw_pc EXCEPT ![t] = "advance"]
  /\ UNCHANGED <<rw_program, writer_indices, ranges, total_ranges, current_range,
                 range_semaphore, thread_data, rw_main, rw_i, rw_advanced>>
  /\ UNCHANGED <<dvars, fvars, avars, mvars, gvars, nvars, evars, kvars, svars>>

\* Under the mutex: the last thread of the range whose turn it is advances
\* current_range and posts the semaphore; the unlock and pthread_exit.
Advance(t) ==
  /\ rw_pc[t] = "advance"
  /\ \E rg \in RangeRead(thread_data[t].range_group) :
       IF IsTurn(thread_data[t].range_group) /\ IsLast(thread_data[t], rg)
         THEN /\ current_range' = current_range + 1
              /\ range_semaphore' = range_semaphore + 1
              /\ rw_advanced' = Append(rw_advanced, t)
         ELSE UNCHANGED <<current_range, range_semaphore, rw_advanced>>
  /\ range_mutex' = Free
  /\ rw_pc' = [rw_pc EXCEPT ![t] = "done"]
  /\ UNCHANGED <<rw_program, writer_indices, ranges, total_ranges, thread_data,
                 rw_main, rw_i>>
  /\ UNCHANGED <<dvars, fvars, avars, mvars, gvars, nvars, evars, kvars, svars>>

RangedThread(t) ==
  \/ LockTurn(t)
  \/ CheckTurn(t)
  \/ SemWait(t)
  \/ SemPost(t)
  \/ EndCriticalSection(t)
  \/ LockAdvance(t)
  \/ Advance(t)

RangedMain ==
  \/ InitializeRanges
  \/ CreateThread
  \/ PostStart
  \/ JoinThread
  \/ PrintSummary

NextRanged ==
  \/ RangedMain
  \/ \E t \in RwThreadIds : RangedThread(t)

SpecRanged == InitRanged /\ [][NextRanged]_vars

\* Every thread and main get to run.
FairSpecRanged ==
  /\ SpecRanged
  /\ WF_vars(RangedMain)
  /\ \A t \in RwThreadIds : WF_vars(RangedThread(t))

\* ------------------------------------------------------------------ fork.c

\* The bound of both loops of main.
NUM_CHILDREN == 10

ChildIndexes == 0 .. NUM_CHILDREN - 1

\* A wait() that returns for any child, terminated or not.
TerminatedAlways(c) == TRUE

\* What wait() needs to return child c: the child has terminated and has not
\* been waited for.
Terminated(c) == fk_child[c] = "exited"

\* main at its first fork().
InitFork ==
  /\ NoDithering
  /\ NoRanged /\ NoServer
  /\ fk_pc = "fork" /\ fk_i = 0
  /\ fk_child = [c \in ChildIndexes |-> "none"]
  /\ fk_said = [c \in ChildIndexes |-> 0]

\* One iteration of the first loop in the parent: fork() fails and main
\* returns 1, or child number i starts in the pid == 0 branch and the parent
\* goes on to the next iteration.
ForkChild ==
  /\ fk_pc = "fork"
  /\ \E forked \in BOOLEAN :
       IF forked
         THEN /\ fk_child' = [fk_child EXCEPT ![fk_i] = "run"]
              /\ fk_pc' = IF fk_i + 1 < NUM_CHILDREN THEN "fork" ELSE "wait"
              /\ fk_i' = IF fk_i + 1 < NUM_CHILDREN THEN fk_i + 1 ELSE 0
         ELSE /\ fk_pc' = "failed"
              /\ UNCHANGED <<fk_child, fk_i>>
  /\ UNCHANGED fk_said
  /\ UNCHANGED <<dvars, fvars, avars, mvars, gvars, nvars, evars, rvars, svars>>

\* The pid == 0 branch in child number c: the announcement, the sleep and the
\* return from main.
ChildRun(c) ==
  /\ fk_child[c] = "run"
  /\ fk_said' = [fk_said EXCEPT ![c] = @ + 1]
  /\ fk_child' = [fk_child EXCEPT ![c] = "exited"]
  /\ UNCHANGED <<fk_pc, fk_i>>
  /\ UNCHANGED <<dvars, fvars, avars, mvars, gvars, nvars, evars, rvars, svars>>

\* One wait(NULL) of the second loop: it returns a terminated child, or at
\* once when the parent has no child left to wait for.
WaitChild ==
  /\ fk_pc = "wait"
  /\ IF \A c \in ChildIndexes : fk_child[c] \in {"none", "reaped"}
       THEN UNCHANGED fk_child
       ELSE \E c \in ChildIndexes :
              /\ fk_child[c] \in {"run", "exited"}
              /\ Terminated(c)
              /\ fk_child' = [fk_child EXCEPT ![c] = "reaped"]
  /\ fk_i' = fk_i + 1
  /\ fk_pc' = IF fk_i + 1 < NUM_CHILDREN THEN "wait" ELSE "print"
  /\ UNCHANGED fk_said
  /\ UNCHANGED <<dvars, fvars, avars, mvars, gvars, nvars, evars, rvars, svars>>

\* The parent's termination message and return 0.
ParentTerminates ==
  /\ fk_pc = "print"
  /\ fk_pc' = "done"
  /\ UNCHANGED <<fk_i, fk_child, fk_said>>
  /\ UNCHANGED <<dvars, fvars, avars, mvars, gvars, nvars, evars, rvars, svars>>

NextFork ==
  \/ ForkChild
  \/ \E c \in ChildIndexes : ChildRun(c)
  \/ WaitChild
  \/ ParentTerminates

SpecFork == InitFork /\ [][NextFork]_vars

\* ---------------------------------------------------------------- server.c

\* The clock values and the clients of the model.
MaxClock == 4
MaxClients == 2

Clients == 1 .. MaxClients

\* The local zone of the model: summer time, DstShift ahead, ends at clock
\* value DstEnd.
DstEnd == 3
DstShift == 2

UtcOffset(now) == IF now < DstEnd THEN DstShift ELSE 0

\* localtime and strftime with "%Y-%m-%d %H:%M:%S\n": the local date and time
\* of day, whose text orders as the local seconds count does.
LocalText(now) == now + UtcOffset(now)

\* A test that lets every iteration send.
DueAlways(now, last) == TRUE

\* The test of handle_client for sending in this iteration.
Due(now, last) == now - last >= 1

\* What send() can do: return the length, return 0 or -1, or raise SIGPIPE,
\* which ends the process.
SendResults == {"sent", "zero", "error", "sigpipe"}

\* main in accept(), no client connected yet.
InitServer ==
  /\ NoDithering
  /\ NoRanged /\ NoFork
  /\ sv_clock \in 0 .. MaxClock
  /\ sv_pc = [c \in Clients |-> "none"]
  /\ last_sent = [c \in Clients |-> 0]
  /\ sv_sent = [c \in Clients |-> <<>>]
  /\ sv_sockets = {} /\ sv_infos = {}
  /\ sv_closes = [c \in Clients |-> 0]
  /\ sv_frees = [c \in Clients |-> 0]

\* The clock moves on by a second.
ClockTick ==
  /\ sv_clock < MaxClock
  /\ sv_clock' = sv_clock + 1
  /\ UNCHANGED <<sv_pc, last_sent, sv_sent, sv_sockets, sv_infos, sv_closes, sv_frees>>
  /\ UNCHANGED <<dvars, fvars, avars, mvars, gvars, nvars, evars, rvars, kvars>>

\* The system clock is set back by a second.
ClockSetBack ==
  /\ sv_clock > 0
  /\ sv_clock' = sv_clock - 1
  /\ UNCHANGED <<sv_pc, last_sent, sv_sent, sv_sockets, sv_infos, sv_closes, sv_frees>>
  /\ UNCHANGED <<dvars, fvars, avars, mvars, gvars, nvars, evars, rvars, kvars>>

\* One iteration of main's loop: accept, the client_info block, the handler
\* thread with last_sent = 0.
AcceptClient ==
  /\ \E c \in Clients :
       /\ sv_pc[c] = "none"
       /\ \A b \in Clients : b < c => sv_pc[b] # "none"
       /\ \A b \in Clients : sv_pc[b] # "killed"
       /\ sv_sockets' = sv_sockets \cup {c}
       /\ sv_infos' = sv_infos \cup {c}
       /\ sv_pc' = [sv_pc EXCEPT ![c] = "loop"]
       /\ last_sent' = [last_sent EXCEPT ![c] = 0]
  /\ UNCHANGED <<sv_clock, sv_sent, sv_closes, sv_frees>>
  /\ UNCHANGED <<dvars, fvars, avars, mvars, gvars, nvars, evars, rvars, kvars>>

\* One iteration of the loop of handle_client for client c.
HandlerIterate(c) ==
  /\ sv_pc[c] = "loop"
  /\ LET now == sv_clock
     IN IF Due(now, last_sent[c])
          THEN \E bytes_sent \in SendResults :
                 CASE bytes_sent = "sent" ->
                        /\ sv_sent' = [sv_sent EXCEPT ![c] = Append(@, <<now, LocalText(now)>>)]
                        /\ last_sent' = [last_sent EXCEPT ![c] = now]
                        /\ UNCHANGED sv_pc
                   [] bytes_sent \in {"zero", "error"} ->
                        /\ sv_pc' = [sv_pc EXCEPT ![c] = "break"]
                        /\ UNCHANGED <<sv_sent, last_sent>>
                   [] bytes_sent = "sigpipe" ->
                        /\ sv_pc' = [b \in Clients |->
                                       IF sv_pc[b] \in {"loop", "break"} THEN "killed" ELSE sv_pc[b]]
                        /\ UNCHANGED <<sv_sent, last_sent>>
          ELSE UNCHANGED <<sv_sent, last_sent, sv_pc>>
  /\ UNCHANGED <<sv_clock, sv_sockets, sv_infos, sv_closes, sv_frees>>
  /\ UNCHANGED <<dvars, fvars, avars, mvars, gvars, nvars, evars, rvars, kvars>>

\* After the break: close(client_socket), free(info), return.
HandlerReturn(c) ==
  /\ sv_pc[c] = "break"
  /\ sv_sockets' = sv_sockets \ {c}
  /\ sv_closes' = [sv_closes EXCEPT ![c] = @ + 1]
  /\ sv_infos' = sv_infos \ {c}
  /\ sv_frees' = [sv_frees EXCEPT ![c] = @ + 1]
  /\ sv_pc' = [sv_pc EXCEPT ![c] = "returned"]
  /\ UNCHANGED <<sv_clock, last_sent, sv_sent>>
  /\ UNCHANGED <<dvars, fvars, avars, mvars, gvars, nvars, evars, rvars, kvars>>

NextServer ==
  \/ ClockTick
  \/ ClockSetBack
  \/ AcceptClient
  \/ \E c \in Clients : HandlerIterate(c)
  \/ \E c \in Clients : HandlerReturn(c)

SpecServer == InitServer /\ [][NextServer]_vars

\* ------------------------------------------------------------ analysis.c

MAX_THREADS == 6
RUNS_PER_THREAD == 5

\* The first line of the result file.
CsvHeader == "Threads,Average_Time_sec,Speedup"

\* What one system() call can return, and the seconds it can take.
ExitStatuses == {0, 1}
Durations == {1, 2}

\* The doubles of analysis.c, as fractions <<numerator, denominator>>.
RatAdd(q, d) == <<q[1] + d * q[2], q[2]>>
RatDivInt(q, n) == <<q[1], q[2] * n>>
RatDiv(p, q) == <<p[1] * q[2], p[2] * q[1]>>

\* "%.6f": the value in millionths, rounded to the nearest.
Fixed6(q) ==
  (q[1] \div q[2]) * 1000000 + (2 * (q[1] % q[2]) * 1000000 + q[2]) \div (2 * q[2])

IsBaselineRunAlways(threads) == TRUE

\* if (threads == 1)
IsBaselineRun(threads) == threads = 1

\* The harness has been started; the dithering variables are at rest.
InitAnalysis ==
  /\ Entry(1, 1, 1, TwoTone(1, 1, 0, 0))
  /\ main = "idle"
  /\ fd_num = 0 /\ fd_res = NoResult
  /\ heap = {} /\ allocated = {} /\ alloc_failed = FALSE
  /\ NoMain
  /\ gray_in = <<0, 0, 0>> /\ gray_res = NoResult
  /\ an_pc = "open" /\ an_threads = 0 /\ an_i = 0
  /\ total_time = <<0, 1>> /\ baseline_time = <<0, 1>>
  /\ csv = <<>> /\ invoked = <<>> /\ averages = <<>>
  /\ fp_open = FALSE /\ an_status = Unset /\ an_results = <<>>
  /\ NoExtra

\* main up to the first call of run_dither_and_time: the result file is opened
\* for writing and the header is written, or main returns 1.
OpenCsv ==
  /\ an_pc = "open"
  /\ \E opened \in BOOLEAN :
       IF opened
         THEN /\ csv' = <<CsvHeader>>
              /\ an_threads' = 1
              /\ an_pc' = "run"
              /\ fp_open' = TRUE
              /\ UNCHANGED an_status
         ELSE /\ an_pc' = "failed"
              /\ an_status' = 1
              /\ UNCHANGED <<csv, an_threads, fp_open>>
  /\ UNCHANGED <<an_i, total_time, baseline_time, invoked, averages, an_results>>
  /\ UNCHANGED <<dvars, fvars, avars, mvars, gvars, xvars>>

\* A test that takes every run for a success.
RunFailedNever(result) == FALSE

\* The test of run_dither_and_time on the result of system().
RunFailed(result) == result # 0

\* One iteration of the loop of run_dither_and_time: a system() call of the
\* dithering executable with the thread count, timed; a non-zero exit status
\* makes run_dither_and_time return -1.0 and main close the file and return 1.
RunOnce ==
  /\ an_pc = "run"
  /\ \E result \in ExitStatuses, d \in Durations :
       /\ invoked' = Append(invoked, an_threads)
       /\ an_results' = Append(an_results, result)
       /\ IF RunFailed(result)
            THEN /\ an_pc' = "failed"
                 /\ fp_open' = FALSE
                 /\ an_status' = 1
                 /\ UNCHANGED <<an_i, total_time>>
            ELSE /\ total_time' = RatAdd(total_time, d)
                 /\ an_i' = an_i + 1
                 /\ an_pc' = IF an_i + 1 < RUNS_PER_THREAD THEN "run" ELSE "row"
                 /\ UNCHANGED <<fp_open, an_status>>
  /\ UNCHANGED <<an_threads, baseline_time, csv, averages>>
  /\ UNCHANGED <<dvars, fvars, avars, mvars, gvars, xvars>>

\* The return of run_dither_and_time and the rest of main's loop body: the
\* average, the baseline, the speedup, the row; then the next thread count or
\* fclose and return 0.
WriteRow ==
  /\ an_pc = "row"
  /\ LET avg_time == RatDivInt(total_time, RUNS_PER_THREAD)
         baseline == IF IsBaselineRun(an_threads) THEN avg_time ELSE baseline_time
         speedup == RatDiv(baseline, avg_time)
     IN /\ baseline_time' = baseline
        /\ csv' = Append(csv, <<an_threads, Fixed6(avg_time), Fixed6(speedup)>>)
        /\ averages' = Append(averages, avg_time)
  /\ an_threads' = an_threads + 1
  /\ an_i' = 0
  /\ total_time' = <<0, 1>>
  /\ an_pc' = IF an_threads + 1 <= MAX_THREADS THEN "run" ELSE "done"
  /\ fp_open' = (an_threads + 1 <= MAX_THREADS)
  /\ an_status' = IF an_threads + 1 <= MAX_THREADS THEN an_status ELSE 0
  /\ UNCHANGED <<invoked, an_results>>
  /\ UNCHANGED <<dvars, fvars, avars, mvars, gvars, xvars>>

NextAnalysis ==
  \/ OpenCsv
  \/ RunOnce
  \/ WriteRow

SpecAnalysis == InitAnalysis /\ [][NextAnalysis]_vars

\* ------------------------------------------------------ rgb_to_grayscale

\* A double has 53 significant bits.  The three coefficients, as doubles, are
\* whole multiples of 2^-56, and so is every product and sum formed from them:
\* a value is held as the binary digits, lowest first, of its multiple of 2^-56.
MantissaBits == 53
FractionBits == 56

HexBits(d) == <<d % 2, (d \div 2) % 2, (d \div 4) % 2, (d \div 8) % 2>>

\* The binary digits, lowest first, of a number given by its hexadecimal
\* digits, highest first.
RECURSIVE FromHex(_)
FromHex(h) == IF h = <<>> THEN <<>> ELSE FromHex(Tail(h)) \o HexBits(Head(h))

\* The doubles nearest to 0.2989, 0.587 and 0.114, times 2^56:
\* 0x4c84b5dcc63f14, 0x9645a1cac08310, 0x1d2f1a9fbe76c9.
Coefficient_r == FromHex(<<4, 12, 8, 4, 11, 5, 13, 12, 12, 6, 3, 15, 1, 4>>)
Coefficient_g == FromHex(<<9, 6, 4, 5, 10, 1, 12, 10, 12, 0, 8, 3, 1, 0>>)
Coefficient_b == FromHex(<<1, 13, 2, 15, 1, 10, 9, 15, 11, 14, 7, 6, 12, 9>>)

\* The one element of a one-element set: the value of an expression, computed once.
Only(S) == CHOOSE v \in S : TRUE

Bit(a, i) == IF i <= Len(a) THEN a[i] ELSE 0

\* The carry into digit i of the sum of a and b: some lower position has two
\* digits 1, and every position between has at least one.
CarryInto(a, b, i) ==
  IF \E j \in 1 .. i - 1 :
       /\ Bit(a, j) + Bit(b, j) = 2
       /\ \A m \in j + 1 .. i - 1 : Bit(a, m) + Bit(b, m) >= 1
    THEN 1 ELSE 0

SumBits(a, b) ==
  LET n == (IF Len(a) > Len(b) THEN Len(a) ELSE Len(b)) + 1
  IN [i \in 1 .. n |-> (Bit(a, i) + Bit(b, i) + CarryInto(a, b, i)) % 2] \o <<>>

\* The exact sum of two values.
AddBits(a, b) == Only({SumBits(v, w) : v \in {a}, w \in {b}})

\* The exact product of a value and a whole number.
RECURSIVE MulSmall(_, _)
MulSmall(a, n) ==
  IF n = 0 THEN <<>>
  ELSE IF n % 2 = 1 THEN AddBits(a, <<0>> \o MulSmall(a, n \div 2))
  ELSE <<0>> \o MulSmall(a, n \div 2)

\* The position of the highest digit 1; 0 for zero.
BitLen(a) ==
  IF \A i \in 1 .. Len(a) : a[i] = 0 THEN 0
  ELSE CHOOSE i \in 1 .. Len(a) : a[i] = 1 /\ \A j \in i + 1 .. Len(a) : a[j] = 0

RoundBits(a) ==
  LET len == BitLen(a)
      drop == len - MantissaBits
  IN IF drop <= 0 THEN a
     ELSE LET kept == SubSeq(a, drop + 1, len)
              half == a[drop] = 1
              more == \E i \in 1 .. drop - 1 : a[i] = 1
              up == half /\ (more \/ kept[1] = 1)
          IN [i \in 1 .. drop |-> 0] \o (IF up THEN AddBits(kept, <<1>>) ELSE kept)

\* The double nearest to an exact value, ties to the even mantissa.
RoundToDouble(a) == Only({RoundBits(v) : v \in {a}})

DoubleMul(c, n) == RoundToDouble(MulSmall(c, n))
DoubleAdd(a, b) == RoundToDouble(AddBits(a, b))

\* The whole part of a value: the conversion to unsigned char of a double
\* below 256.
RECURSIVE Whole(_, _)
Whole(a, i) ==
  IF i > Len(a) THEN 0 ELSE a[i] + 2 * Whole(a, i + 1)
Truncate(a) == Only({Whole(v, FractionBits + 1) : v \in {a}})

\* (unsigned char)((0.2989 * r + 0.587 * g + 0.114 * b))
GrayOf(r, g, b) ==
  Truncate(DoubleAdd(DoubleAdd(DoubleMul(Coefficient_r, r), DoubleMul(Coefficient_g, g)),
                     DoubleMul(Coefficient_b, b)))

rgb_to_grayscale_unchanged(r, g, b) == GrayOf(r, g, b)

rgb_to_grayscale(r, g, b) ==
  LET result == GrayOf(r, g, b)
  IN IF result < 255 /\ result > 0 THEN result + 1 ELSE result

\* Channel values: the ends of the range, small values, and values whose
\* weighted sum is a whole number.
ChannelValues == {0, 3, 24, 72, 254, 255}

InitGrayscale ==
  /\ Entry(1, 1, 1, TwoTone(1, 1, 0, 0))
  /\ main = "idle"
  /\ fd_num = 0 /\ fd_res = NoResult
  /\ heap = {} /\ allocated = {} /\ alloc_failed = FALSE
  /\ NoMain
  /\ gray_in \in ChannelValues \X ChannelValues \X ChannelValues
  /\ gray_res = NoResult
  /\ an_pc = "idle" /\ an_threads = 0 /\ an_i = 0
  /\ total_time = <<0, 1>> /\ baseline_time = <<0, 1>>
  /\ csv = <<>> /\ invoked = <<>> /\ averages = <<>>
  /\ fp_open = FALSE /\ an_status = Unset /\ an_results = <<>>
  /\ NoExtra

\* A call rgb_to_grayscale(r, g, b).
ApplyGrayscale ==
  /\ main = "idle"
  /\ gray_res = NoResult
  /\ gray_res' = <<rgb_to_grayscale(gray_in[1], gray_in[2], gray_in[3])>>
  /\ UNCHANGED gray_in
  /\ UNCHANGED <<dvars, fvars, avars, mvars, nvars, xvars>>

NextGrayscale == ApplyGrayscale

SpecGrayscale == InitGrayscale /\ [][NextGrayscale]_vars

\* ----------------------------------------------------------- floor_divide

InitFD ==
  /\ Entry(1, 1, 1, TwoTone(1, 1, 0, 0))
  /\ main = "idle"
  /\ fd_num \in (0 - MaxNumerator) .. MaxNumerator
  /\ fd_res = NoResult
  /\ heap = {} /\ allocated = {} /\ alloc_failed = FALSE
  /\ NoMain
  /\ NoOther

\* A call floor_divide(fd_num, 16).
ApplyFloorDivide ==
  /\ main = "idle"
  /\ fd_res = NoResult
  /\ fd_res' = <<floor_divide(fd_num, Denominator)>>
  /\ UNCHANGED fd_num
  /\ UNCHANGED <<dvars, avars, mvars, ovars>>

NextFD == ApplyFloorDivide

SpecFD == InitFD /\ [][NextFD]_vars

\* ================================================================ claims

\* What the history variables say, read without the model's own kernel.

\* The mathematical floor of n / 16 (\div rounds toward minus infinity).
Floor16(n) == n \div 16

\* The pixels that deposit into pixel c.
Preds(c) ==
  {<<c[1], c[2] - 1>>, <<c[1] - 1, c[2] + 1>>, <<c[1] - 1, c[2]>>, <<c[1] - 1, c[2] - 1>>}
    \cap Cells

HasDeposited(p, c) == \E i \in 1 .. Len(deplog[p]) : deplog[p][i][1] = c

RECURSIVE SumLog(_, _)
SumLog(s, c) ==
  IF s = <<>> THEN 0
  ELSE (IF Head(s)[1] = c THEN Head(s)[2] ELSE 0) + SumLog(Tail(s), c)

RECURSIVE SumCells(_, _)
SumCells(S, c) ==
  IF S = {} THEN 0
  ELSE LET p == CHOOSE q \in S : TRUE
       IN SumLog(deplog[p], c) + SumCells(S \ {p}, c)

\* The sum of all deposits made so far into pixel c (by the pixels that can
\* address it).
Received(c) == SumCells(Preds(c), c)

InGrid(r) == r[1] \in Cells

KernelOf(c, e) ==
  << <<<<c[1], c[2] + 1>>, Floor16(7 * e)>>,
     <<<<c[1] + 1, c[2] - 1>>, Floor16(3 * e)>>,
     <<<<c[1] + 1, c[2]>>, Floor16(5 * e)>>,
     <<<<c[1] + 1, c[2] + 1>>, Floor16(e)>> >>

\* The deposits source c owes for error e: the kernel's targets inside the grid.
Owed(c, e) == SelectSeq(KernelOf(c, e), InGrid)

IsPrefix(s, t) == Len(s) <= Len(t) /\ SubSeq(t, 1, Len(s)) = s

InMt == main \in {"mt", "mt_done"}
InSt == main \in {"st", "st_done"}

Blocked(t) == pc[t] \in {"w1_wait", "w2_wait"}
Unfinished == {t \in Threads : pc[t] # "done"}

\* C1: when dither_image_mt has returned, its output grid equals, cell for
\* cell, the output grid dither_image_st produced for the same input.
C1_MtOutputEqualsSt == main = "mt_done" => output = st_output

\* C2: in dither_image_mt, once work[r][c] has been read for quantization,
\* every in-bounds predecessor (r,c-1), (r-1,c+1), (r-1,c), (r-1,c-1) has
\* already made its deposit into work[r][c].
C2_DepositsBeforeRead ==
  InMt => \A c \in Cells : qcount[c] > 0 => \A p \in Preds(c) : HasDeposited(p, c)

\* C3: no state of dither_image_mt has workers left that are all blocked in a
\* condition wait, and under weakly fair scheduling every worker returns, every
\* pixel ends processed and the call returns.
C3_TerminatesWithoutDeadlock ==
  /\ [](main = "mt" /\ Unfinished # {} => \E t \in Unfinished : ~Blocked(t))
  /\ <>(/\ main = "mt_done"
        /\ \A t \in Threads : pc[t] = "done"
        /\ \A c \in Cells : pixel_processed[c] = 1)

\* More workers than diagonals, and the call has returned.
C3_Witness ==
  /\ main = "mt_done"
  /\ num_threads > width + height - 1
  /\ \A c \in Cells : pixel_processed[c] = 1

\* C4: two complete runs of dither_image_mt on the same input with the same
\* worker count end with the same output grid.
C4_SameOutputAcrossRuns == (run = 2 /\ main = "mt_done") => output = prev_output

\* C5: in one dither_image_mt call every pixel is quantized exactly once: never
\* twice, and once by the time it is marked processed and by the time the call
\* returns, when its output cell is written.
C5_QuantizedExactlyOnce ==
  InMt => \A c \in Cells :
            /\ qcount[c] <= 1
            /\ (qcount[c] = 0) = (output[c] = Unset)
            /\ pixel_processed[c] = 1 => qcount[c] = 1
            /\ main = "mt_done" => qcount[c] = 1

C5_Witness ==
  /\ main = "mt_done"
  /\ num_threads >= 2 /\ height >= 2 /\ width >= 2
  /\ \A c \in Cells : qcount[c] = 1 /\ output[c] # Unset

\* C6: no value other than 0 and 255 is ever stored in an output cell, by
\* either engine, and when an engine has returned every output cell holds 0 or 255.
C6_OutputIsBilevel ==
  \A c \in Cells :
    /\ output[c] \in {Unset, 0, 255}
    /\ st_output[c] \in {Unset, 0, 255}
    /\ main \in {"st_done", "mt_done"} => output[c] \in {0, 255}
    /\ InMt => st_output[c] \in {0, 255}

C6_Witness ==
  /\ main = "mt_done"
  /\ \E c1 \in Cells, c2 \in Cells : output[c1] = 0 /\ output[c2] = 255
  /\ \E c1 \in Cells, c2 \in Cells : st_output[c1] = 0 /\ st_output[c2] = 255

\* C7: in both engines, with v the accumulator value read at a pixel's
\* quantization, the output written is 255 if v > 128 and 0 otherwise, and the
\* error kept for propagation is v minus that output.
C7_ThresholdRule ==
  /\ \A c \in Cells :
       qcount[c] > 0 =>
         /\ output[c] = IF qval[c] > 128 THEN 255 ELSE 0
         /\ qerr[c] = qval[c] - output[c]
  /\ \A t \in Threads :
       (main = "mt" /\ pc[t] \in {"dep", "dep_w", "mark", "mark_set"}) =>
         err[t] = qval[Cell(t)] - output[Cell(t)]

\* The wavefront engine has read 128 at one pixel (output 0) and more than 128
\* at another (output 255, negative error).
C7_Witness ==
  /\ main = "mt_done"
  /\ \E c1 \in Cells, c2 \in Cells :
       /\ qval[c1] = 128 /\ output[c1] = 0 /\ qerr[c1] = 128
       /\ qval[c2] > 128 /\ output[c2] = 255 /\ qerr[c2] < 0

\* C8: floor_divide(n, 16) is the floor of n / 16 for every n of the range:
\* 16 * result <= n < 16 * (result + 1); and -1, -15, -16, 15, 16 give
\* -1, -1, -1, 0, 1.
C8_FloorDivideIsFloor ==
  fd_res # NoResult =>
    /\ 16 * fd_res[1] <= fd_num /\ fd_num < 16 * (fd_res[1] + 1)
    /\ fd_num = -1 => fd_res[1] = -1
    /\ fd_num = -15 => fd_res[1] = -1
    /\ fd_num = -16 => fd_res[1] = -1
    /\ fd_num = 15 => fd_res[1] = 0
    /\ fd_num = 16 => fd_res[1] = 1

C8_Witness == fd_num = -17 /\ fd_res = <<-2>>

\* C9: in both engines a source with error e deposits floor(7e/16) right,
\* floor(3e/16) below-left, floor(5e/16) below and floor(e/16) below-right, in
\* that order, each once and only inside the grid; every accumulator is its
\* input plus the deposits made into it (nothing else changes one); and every
\* pixel a worker waits for, deposits into or quantizes is inside the grid.
C9_DepositsMatchKernel ==
  /\ \A c \in Cells :
       /\ qcount[c] = 0 => deplog[c] = <<>>
       /\ qcount[c] > 0 =>
            LET owed == Owed(c, qerr[c])
            IN /\ IsPrefix(deplog[c], owed)
               /\ InSt => deplog[c] = owed
               /\ (InMt /\ pixel_processed[c] = 1) => deplog[c] = owed
       /\ (InMt /\ pixel_processed[c] = 1) => qcount[c] > 0
       /\ \A i \in 1 .. Len(deplog[c]) : deplog[c][i][1] \in Cells
       /\ InSt => work[c] = input[c] + Received(c)
       /\ (InMt /\ \A t \in Threads : pc[t] # "dep_w") => work[c] = input[c] + Received(c)
  /\ main = "mt" =>
       \A t \in Threads :
         /\ pc[t] \in {"w1", "w1_chk", "w1_wait", "w2", "w2_chk", "w2_wait"} =>
              WaitCell(t) \in Cells
         /\ pc[t] \in {"dep", "dep_w"} => Target(k[t], y[t], X(t)) \in Cells
         /\ pc[t] \notin {"loop", "done"} => Cell(t) \in Cells

\* The wavefront engine has finished an inner pixel of the first row, which
\* made all four deposits of a negative error, and the last pixel, which made none.
C9_Witness ==
  /\ main = "mt_done"
  /\ \E c \in Cells : Len(deplog[c]) = 4 /\ qerr[c] < 0
  /\ deplog[<<height - 1, width - 1>>] = <<>>

\* C10: a worker between the read and the write of a deposit holds the target's
\* mutex, and when dither_image_mt has returned every work[r][c] is its input
\* value plus the sum of all deposits addressed to it.
C10_NoLostDeposit ==
  /\ main = "mt" =>
       \A t \in Threads :
         pc[t] = "dep_w" => pixel_mutexes[Target(k[t], y[t], X(t))] = t
  /\ main = "mt_done" => \A c \in Cells : work[c] = input[c] + Received(c)

\* Two workers deposit into the same pixel at once: one is inside its
\* read-modify-write, the other is held at the mutex.
C10_Witness ==
  \E t \in Threads, u \in Threads :
    /\ main = "mt" /\ t # u
    /\ pc[t] = "dep_w" /\ pc[u] = "dep"
    /\ Target(k[t], y[t], X(t)) = Target(k[u], y[u], X(u))

\* C11: the worker that quantizes pixel (r,c) holds that pixel's mutex while it
\* reads work[r][c] and writes output[r][c].
C11_QuantizeUnderMutex ==
  [][\A t \in Threads :
       (main = "mt" /\ main' = "mt" /\ pc[t] = "quant" /\ pc'[t] # "quant") =>
         pixel_mutexes[Cell(t)] = t]_vars

\* The mutexes worker t holds.
Held(t) == {c \in Cells : pixel_mutexes[c] = t}

\* C12: a worker of dither_image_mt never holds two pixel mutexes; it holds
\* none whenever it is about to lock one, and none while it is blocked in a
\* condition wait (the awaited pixel's mutex included).
C12_AtMostOneMutex ==
  main = "mt" =>
    \A t \in Threads :
      /\ Cardinality(Held(t)) <= 1
      /\ pc[t] \in {"w1_chk", "w2_chk"} => Held(t) = {WaitCell(t)}
      /\ pc[t] = "dep_w" => Held(t) = {Target(k[t], y[t], X(t))}
      /\ pc[t] = "mark_set" => Held(t) = {Cell(t)}
      /\ pc[t] \notin {"w1_chk", "w2_chk", "dep_w", "mark_set"} => Held(t) = {}

\* A worker is blocked on a pixel's condition while the pixel's owner holds
\* that pixel's mutex to mark it processed.
C12_Witness ==
  /\ main = "mt"
  /\ \E t \in Threads, u \in Threads :
       /\ Blocked(t) /\ Held(t) = {}
       /\ pc[u] = "mark_set" /\ Cell(u) = WaitCell(t) /\ Held(u) = {Cell(u)}

\* C13: every processed flag is 0 when the workers start; a flag changes only
\* from 0 to 1, only by the worker that holds the pixel's mutex to mark it, and
\* that worker finds it 0; a flag that is 1 stays 1; all are 1 at return.
C13_ProcessedSetOnce ==
  [][/\ (main # "mt" /\ main' = "mt") => \A c \in Cells : pixel_processed'[c] = 0
     /\ (main = "mt" /\ main' \in {"mt", "mt_done"}) =>
          /\ \A c \in Cells :
               /\ pixel_processed[c] = 1 => pixel_processed'[c] = 1
               /\ pixel_processed'[c] # pixel_processed[c] =>
                    /\ pixel_mutexes[c] \in Threads
                    /\ pc[pixel_mutexes[c]] = "mark_set"
                    /\ Cell(pixel_mutexes[c]) = c
          /\ \A t \in Threads :
               (pc[t] = "mark_set" /\ pc'[t] # "mark_set") =>
                 /\ pixel_processed[Cell(t)] = 0
                 /\ pixel_processed'[Cell(t)] = 1
                 /\ pixel_mutexes[Cell(t)] = t
     /\ main' = "mt_done" => \A c \in Cells : pixel_processed'[c] = 1]_vars

\* A worker holds its pixel's mutex and is about to set the flag, which is
\* still 0, while another pixel's flag is already 1.
C13_Witness ==
  /\ main = "mt"
  /\ \E t \in Threads, c \in Cells :
       /\ pc[t] = "mark_set" /\ pixel_mutexes[Cell(t)] = t
       /\ pixel_processed[Cell(t)] = 0
       /\ pixel_processed[c] = 1

\* The two neighbours process_wavefront waits for, where inside the grid.
Awaited(c) == {<<c[1] - 1, c[2] + 1>>, <<c[1], c[2] - 1>>} \cap Cells

\* C14: a worker about to read the accumulator of (r,c), and any pixel already
\* read, has (r-1,c+1) and (r,c-1) marked processed where they are in bounds.
C14_WaitsBeforeRead ==
  /\ main = "mt" =>
       \A t \in Threads :
         pc[t] = "quant" => \A p \in Awaited(Cell(t)) : pixel_processed[p] = 1
  /\ InMt =>
       \A c \in Cells :
         qcount[c] > 0 => \A p \in Awaited(c) : pixel_processed[p] = 1

\* A worker is about to read a pixel that has both awaited neighbours.
C14_Witness ==
  /\ main = "mt"
  /\ \E t \in Threads :
       /\ pc[t] = "quant"
       /\ Cardinality(Awaited(Cell(t))) = 2
       /\ \A p \in Awaited(Cell(t)) : pixel_processed[p] = 1

\* Pixel a comes before pixel b in a worker's visiting order: an earlier
\* diagonal, or the same diagonal and a smaller row.
Earlier(a, b) ==
  \/ a[1] + a[2] < b[1] + b[2]
  \/ (a[1] + a[2] = b[1] + b[2] /\ a[1] < b[1])

OwnedBy(t) == {c \in Cells : (c[1] + c[2]) % num_threads = t}

AtPixel(t) == pc[t] \notin {"loop", "done"}

\* C15: the pixel a worker is at is one of worker (r+c) mod n's own; every
\* pixel read and not yet marked is the current pixel of its owner; and a
\* worker at a pixel has finished all its pixels of earlier diagonals and of
\* smaller rows in this diagonal, and has touched none of its later ones.
C15_OwnershipAndOrder ==
  main = "mt" =>
    /\ \A t \in Threads :
         /\ AtPixel(t) =>
              /\ Cell(t) \in OwnedBy(t)
              /\ \A c \in OwnedBy(t) :
                   /\ Earlier(c, Cell(t)) => (pixel_processed[c] = 1 /\ qcount[c] = 1)
                   /\ Earlier(Cell(t), c) => (pixel_processed[c] = 0 /\ qcount[c] = 0)
         /\ pc[t] = "done" => \A c \in OwnedBy(t) : pixel_processed[c] = 1
    /\ \A c \in Cells :
         (qcount[c] > 0 /\ pixel_processed[c] = 0) =>
           \E t \in Threads : AtPixel(t) /\ Cell(t) = c /\ (c[1] + c[2]) % num_threads = t
    /\ \A c \in Cells :
         qcount[c] > 0 => \A t \in Threads : (AtPixel(t) /\ Cell(t) = c) => c \in OwnedBy(t)

\* With two workers, one is at a pixel of a row below the first, with own
\* pixels behind it and own pixels still ahead.
C15_Witness ==
  /\ main = "mt" /\ num_threads = 2
  /\ \E t \in Threads :
       /\ pc[t] = "quant" /\ y[t] >= 1
       /\ \E c \in OwnedBy(t) : Earlier(c, Cell(t))
       /\ \E c \in OwnedBy(t) : Earlier(Cell(t), c)

\* The kernel's targets of source c that lie inside the grid.
TargetsOf(c) ==
  {<<c[1], c[2] + 1>>, <<c[1] + 1, c[2] - 1>>, <<c[1] + 1, c[2]>>, <<c[1] + 1, c[2] + 1>>}
    \cap Cells

\* C16: a pixel that is marked processed has its output cell written and has
\* made its deposit into every target inside the grid, once each, and its
\* worker is past the deposits: marking is the last step of the visit.
C16_ProcessedIsLast ==
  InMt =>
    \A c \in Cells :
      pixel_processed[c] = 1 =>
        /\ output[c] \in {0, 255}
        /\ \A p \in TargetsOf(c) : HasDeposited(c, p)
        /\ Len(deplog[c]) = Cardinality(TargetsOf(c))
        /\ \A t \in Threads :
             Cell(t) = c => pc[t] \notin {"quant", "dep", "dep_w", "mark", "mark_set"}

\* While other workers still run, a pixel with four targets is marked processed.
C16_Witness ==
  /\ main = "mt"
  /\ \E c \in Cells : pixel_processed[c] = 1 /\ Cardinality(TargetsOf(c)) = 4
  /\ \E c \in Cells : pixel_processed[c] = 0

\* C20: the wavefront engine's mutexes, conditions, flags and work grid stay
\* allocated as long as any worker has not returned; they are released only
\* once every worker has been joined, and at the return of the call nothing
\* the call allocated is still allocated.
C20_ReleasedAfterJoin ==
  /\ (\E t \in Threads : pc[t] \notin {"idle", "done"}) => MtBlocks \subseteq heap
  /\ main = "mt" => heap = MtBlocks
  /\ main = "mt_done" => (heap = {} /\ allocated = MtBlocks /\ Joined)

\* dither_image_mt has returned from a run with two workers.
C20_Witness ==
  /\ main = "mt_done" /\ num_threads = 2
  /\ heap = {} /\ allocated = MtBlocks
  /\ \A c \in Cells : pixel_processed[c] = 1

\* The worker count main works with: the number argv[3] starts with, 1 when
\* no count is given.
CountGiven == IF argc = 4 THEN atoi(argv3) ELSE 1

\* C17: once main has chosen, it has called the serial engine exactly when the
\* worker count is at most 1 (zero, negative and the default included) or the
\* image has fewer than 10000 pixels, and the wavefront engine in every other
\* case; the wavefront engine is called with at least 2 workers.
C17_EngineSelection ==
  (called # <<>> /\ argc \in {3, 4}) =>
    /\ called[1] \in {"dither_image_st", "dither_image_mt"}
    /\ called[1] = "dither_image_st" <=>
         (CountGiven <= 1 \/ image_height * image_width < 10000)
    /\ called[1] = "dither_image_mt" =>
         (Len(called) = 2 /\ called[2] = CountGiven /\ called[2] >= 2)
    /\ argc = 3 => called[1] = "dither_image_st"

\* The wavefront engine is called with 2 workers on exactly 10000 pixels.
C17_Witness ==
  /\ called = <<"dither_image_mt", 2>>
  /\ image_height * image_width = 10000

\* C18: an engine called with height <= 0 or width <= 0 allocates nothing and
\* starts no worker.
C18_DegenerateRejected ==
  (height <= 0 \/ width <= 0) =>
    /\ allocated = {}
    /\ \A t \in Threads : pc[t] = "idle"

\* C19: when an allocation fails inside dither_image_mt, no worker is started
\* and no accumulator, output cell or flag is used.
C19_AllocFailureAborts ==
  alloc_failed =>
    /\ \A t \in Threads : pc[t] = "idle"
    /\ \A c \in Cells : qcount[c] = 0 /\ pixel_processed[c] = 0

SinglePixel(v) == height = 1 /\ width = 1 /\ input[<<0, 0>>] = v

\* C21: on a 1x1 grid holding 200 both engines output 255, neither makes a
\* deposit (the accumulator keeps the input value), and no wavefront worker,
\* whatever their number, ever enters a wait on a predecessor.
C21_SinglePixel ==
  SinglePixel(200) =>
    /\ work[<<0, 0>>] = 200
    /\ deplog[<<0, 0>>] = <<>>
    /\ output[<<0, 0>>] \in {Unset, 255}
    /\ main \in {"st_done", "mt_done"} => output[<<0, 0>>] = 255
    /\ \A t \in Threads :
         pc[t] \notin {"w1", "w1_chk", "w1_wait", "w2", "w2_chk", "w2_wait",
                       "dep", "dep_w"}

\* The wavefront engine has returned from the 1x1 grid with two workers.
C21_Witness ==
  /\ SinglePixel(200) /\ num_threads = 2
  /\ main = "mt_done" /\ st_output[<<0, 0>>] = 255 /\ output[<<0, 0>>] = 255

AllInput(v) == \A c \in Cells : input[c] = v
Returned == main \in {"st_done", "mt_done"}

\* C22: on a grid whose cells are all 0, no accumulator is ever greater than 0,
\* no output cell is ever written with anything but 0, and each engine returns
\* an output grid of all 0.
C22_AllBlack ==
  AllInput(0) =>
    \A c \in Cells :
      /\ work[c] <= 0
      /\ output[c] \in {Unset, 0}
      /\ Returned => output[c] = 0

\* The wavefront engine with two workers has returned from an all-0 grid of
\* at least 2x2, after the serial engine.
C22_Witness ==
  /\ AllInput(0) /\ height >= 2 /\ width >= 2 /\ num_threads = 2
  /\ main = "mt_done"
  /\ \A c \in Cells : st_output[c] = 0 /\ output[c] = 0

\* C23: on a grid whose cells are all 255, no output cell is ever written with
\* anything but 255, and each engine returns an output grid of all 255.
C23_AllWhite ==
  AllInput(255) =>
    \A c \in Cells :
      /\ output[c] \in {Unset, 255}
      /\ Returned => output[c] = 255

\* The wavefront engine with two workers has returned from an all-255 grid of
\* at least 2x2, after the serial engine.
C23_Witness ==
  /\ AllInput(255) /\ height >= 2 /\ width >= 2 /\ num_threads = 2
  /\ main = "mt_done"
  /\ \A c \in Cells : st_output[c] = 255 /\ output[c] = 255

\* The 2x2 checkerboard and the grid the kernel gives for it: 0 quantizes to 0
\* with error 0, 255 to 255 with error 0, so nothing is propagated.
Checkerboard ==
  (<<0, 0>> :> 0) @@ (<<0, 1>> :> 255) @@ (<<1, 0>> :> 255) @@ (<<1, 1>> :> 0)
CheckerboardDithered ==
  (<<0, 0>> :> 0) @@ (<<0, 1>> :> 255) @@ (<<1, 0>> :> 255) @@ (<<1, 1>> :> 0)

\* C24: on the input [[0,255],[255,0]] each engine, in every interleaving and
\* with every worker count, writes only cells of [[0,255],[255,0]] and returns
\* exactly that grid.
C24_Checkerboard ==
  (height = 2 /\ width = 2 /\ input = Checkerboard) =>
    /\ \A c \in Cells : output[c] \in {Unset, CheckerboardDithered[c]}
    /\ Returned => output = CheckerboardDithered
    /\ main = "mt_done" => st_output = CheckerboardDithered

\* The wavefront engine with two workers has returned from the checkerboard.
C24_Witness ==
  /\ height = 2 /\ width = 2 /\ input = Checkerboard /\ num_threads = 2
  /\ main = "mt_done" /\ output = CheckerboardDithered

\* C25: the system() calls made so far are, in order, five for thread count 1,
\* five for 2, and so on; when the harness has returned 0 there were exactly
\* thirty of them, and the file holds the header and six rows for thread
\* counts 1..6 in increasing order, each with its average and with the
\* one-thread average divided by its average.
C25_BenchmarkSchedule ==
  /\ \A j \in 1 .. Len(invoked) : invoked[j] = ((j - 1) \div 5) + 1
  /\ an_pc = "done" =>
       /\ Len(invoked) = 30
       /\ Len(csv) = 7
       /\ csv[1] = "Threads,Average_Time_sec,Speedup"
       /\ Len(averages) = 6
       /\ \A n \in 1 .. 6 :
            /\ csv[n + 1][1] = n
            /\ csv[n + 1][2] = Fixed6(averages[n])
            /\ csv[n + 1][3] = Fixed6(RatDiv(averages[1], averages[n]))

\* The harness has returned 0 and the six-thread runs were not as fast as the
\* one-thread runs.
C25_Witness ==
  /\ an_pc = "done"
  /\ Len(invoked) = 30
  /\ csv[7][1] = 6 /\ csv[7][3] < 1000000

\* 10000 times the exact weighted sum 0.2989 r + 0.587 g + 0.114 b.
WeightedSum(rgb) == 2989 * rgb[1] + 5870 * rgb[2] + 1140 * rgb[3]

\* The increment of a gray strictly between 0 and 255.
Bumped(t) == IF 0 < t /\ t < 255 THEN t + 1 ELSE t

\* C26 as stated: rgb_to_grayscale returns t, the floor of the exact weighted
\* sum, when t is 0 or 255, and t + 1 otherwise; the result is in 0..255 and
\* is never 1.
C26_GrayscaleExactFloor ==
  gray_res # NoResult =>
    /\ gray_res[1] = Bumped(WeightedSum(gray_in) \div 10000)
    /\ gray_res[1] \in 0 .. 255
    /\ gray_res[1] # 1

\* C26, amended: the rule holds with t the floor of the weighted sum whenever
\* that sum is not a whole number; when it is a whole number the sum computed
\* in doubles can fall just below it, and t is that number or one less.  The
\* result is in 0..255 and is never 1.
C26_GrayscaleRule ==
  gray_res # NoResult =>
    LET n == WeightedSum(gray_in)
        floors == IF n % 10000 = 0 /\ n > 0
                    THEN {n \div 10000, (n \div 10000) - 1}
                    ELSE {n \div 10000}
    IN /\ \E t \in floors : gray_res[1] = Bumped(t)
       /\ gray_res[1] \in 0 .. 255
       /\ gray_res[1] # 1

\* rgb_to_grayscale(0, 72, 24): the exact sum is 45, the result is 45, not 46.
C26_Witness == gray_in = <<0, 72, 24>> /\ gray_res = <<45>>

\* The predecessors of c that no wait names: above and above-left.
Unawaited(c) == {<<c[1] - 1, c[2]>>, <<c[1] - 1, c[2] - 1>>} \cap Cells

\* C27: in a grid at least 2 wide, a worker about to read the accumulator of
\* (r,c), and any pixel already read, has (r-1,c) and (r-1,c-1) marked
\* processed, and their deposits into (r,c) made, where they are in bounds.
C27_TransitivePredecessors ==
  (InMt /\ width >= 2) =>
    /\ \A t \in Threads :
         (main = "mt" /\ pc[t] = "quant") =>
           \A p \in Unawaited(Cell(t)) :
             pixel_processed[p] = 1 /\ HasDeposited(p, Cell(t))
    /\ \A c \in Cells :
         qcount[c] > 0 =>
           \A p \in Unawaited(c) : pixel_processed[p] = 1 /\ HasDeposited(p, c)

\* With two workers, one is about to read a pixel that has both predecessors
\* above and above-left.
C27_Witness ==
  /\ main = "mt" /\ width >= 2 /\ num_threads = 2
  /\ \E t \in Threads :
       /\ pc[t] = "quant"
       /\ Cardinality(Unawaited(Cell(t))) = 2

\* Worker t is in the wait for its top-right neighbour, or for its left one:
\* locking the neighbour's mutex, testing the flag, or blocked on the condition.
InFirstWait(t) == t \in Threads /\ main = "mt" /\ pc[t] \in {"w1", "w1_chk", "w1_wait"}
InSecondWait(t) == t \in Threads /\ main = "mt" /\ pc[t] \in {"w2", "w2_chk", "w2_wait"}

\* C28: no worker is ever blocked in a condition wait on a pixel whose
\* processed flag is 1, and under weakly fair scheduling every worker that has
\* entered a wait for a pixel leaves that wait.
C28_NoLostWakeup ==
  /\ [](main = "mt" =>
          \A t \in Threads : Blocked(t) => pixel_processed[WaitCell(t)] = 0)
  /\ \A t \in 0 .. MaxThreads - 1 :
       /\ InFirstWait(t) ~> ~InFirstWait(t)
       /\ InSecondWait(t) ~> ~InSecondWait(t)

\* A worker is blocked on a pixel's condition while that pixel's owner holds
\* the mutex and is about to set the flag and broadcast.
C28_Witness ==
  /\ main = "mt"
  /\ \E t \in Threads, u \in Threads :
       /\ Blocked(t)
       /\ pc[u] = "mark_set"
       /\ Cell(u) = WaitCell(t)

\* C29: a worker in the wait for the top-right neighbour (r-1,c+1) finds it
\* marked processed, by itself: the neighbour lies on the worker's own
\* diagonal, one row up.  The wait never blocks, and at every moment the
\* processed pixels of a diagonal are its rows from the top down to some row.
C29_DiagonalIsSequential ==
  main = "mt" =>
    /\ \A t \in Threads :
         /\ pc[t] # "w1_wait"
         /\ pc[t] \in {"w1", "w1_chk"} =>
              /\ pixel_processed[WaitCell(t)] = 1
              /\ WaitCell(t) \in OwnedBy(t)
              /\ WaitCell(t)[1] + WaitCell(t)[2] = diag[t]
    /\ \A c \in Cells, p \in Cells :
         (p[1] + p[2] = c[1] + c[2] /\ p[1] < c[1] /\ pixel_processed[c] = 1) =>
           pixel_processed[p] = 1

\* With two workers, one tests the flag of its top-right neighbour.
C29_Witness ==
  /\ main = "mt" /\ num_threads = 2
  /\ \E t \in Threads : pc[t] = "w1_chk" /\ pixel_processed[WaitCell(t)] = 1

\* C30: in every state of either engine every accumulator lies in -128..383,
\* every error computed lies in -128..128, and every deposit made lies in
\* -56..56: all far inside the range of int.
C30_ValuesStayBounded ==
  /\ \A c \in Cells :
       /\ work[c] \in -128 .. 383
       /\ qerr[c] \in -128 .. 128
       /\ \A i \in 1 .. Len(deplog[c]) : deplog[c][i][2] \in -56 .. 56
  /\ \A t \in Threads :
       /\ err[t] \in -128 .. 128
       /\ err[t] * 7 \in -896 .. 896
       /\ tmp[t] \in -128 .. 383

\* The wavefront engine has driven an accumulator below 0 and holds a
\* negative error.
C30_Witness ==
  /\ main = "mt"
  /\ \E c \in Cells : work[c] < 0
  /\ \E t \in Threads : err[t] = -126

\* C31: on the same input, whenever dither_image of error_diffusion.c and
\* dither_image_st of thread.c stand before the same pixel their work grids
\* and the output cells written so far are equal, and when both have returned
\* their output grids are equal.
C31_RasterEnginesAgree ==
  /\ (main = "st" /\ ed_pc = "run" /\ st_y = ed_y /\ st_x = ed_x) =>
       (work = ed_work /\ output = ed_output)
  /\ (main = "st_done" /\ ed_pc = "done") => output = ed_output

\* Both have returned from a grid of at least 2x2 whose output has both levels.
C31_Witness ==
  /\ main = "st_done" /\ ed_pc = "done"
  /\ height >= 2 /\ width >= 2
  /\ \E c \in Cells : ed_output[c] = 0
  /\ \E c \in Cells : ed_output[c] = 255
  /\ \E c \in Cells : ed_work[c] < 0

\* The threads of range r as initialize_ranges laid it out.
RangeThreads(r) == ranges[r + 1].start_thread .. ranges[r + 1].end_thread

\* The thread is past its critical section.
Finished(t) == rw_pc[t] \in {"after", "advance", "done"}

\* C32: current_range is past range r only when every thread of range r has
\* finished its critical section, and no thread of range r + 1 is in its
\* critical section while a thread of range r is in its own or has yet to
\* enter it.
C32_RangeFinishedBeforeNext ==
  /\ \A r \in 0 .. Len(ranges) - 1 :
       r < current_range => \A t \in RangeThreads(r) : Finished(t)
  /\ \A r \in 0 .. Len(ranges) - 2 :
       (\E u \in RangeThreads(r + 1) : rw_pc[u] = "cs") =>
         \A t \in RangeThreads(r) : Finished(t)

\* C33: every thread main has set up has a range_group g with
\* 0 <= g < total_ranges whose range, as initialize_ranges built it, holds
\* the thread's id.
C33_GroupInsideRange ==
  \A t \in DOMAIN thread_data :
    thread_data[t].thread_id = t =>
      LET g == thread_data[t].range_group
      IN /\ 0 <= g /\ g < total_ranges
         /\ ranges[g + 1].start_thread <= t
         /\ t <= ranges[g + 1].end_thread

\* C34: with every thread and main scheduled fairly, every thread gets through
\* its critical section and exits, current_range reaches total_ranges, main's
\* joins return and the summary is printed.
C34_AllThreadsFinish ==
  <>(/\ rw_main = "done"
     /\ \A t \in RwThreadIds : rw_pc[t] = "done"
     /\ current_range = total_ranges)

\* C35: while a writer is in its critical section no other thread is in its
\* critical section.
C35_WriterAlone ==
  \A t \in DOMAIN thread_data :
    (thread_data[t].is_writer = 1 /\ rw_pc[t] = "cs") =>
      \A u \in DOMAIN thread_data : u # t => rw_pc[u] # "cs"

\* C36: current_range changes only by +1, only in a step of the thread that
\* holds range_mutex, a thread of the range whose turn it is, of which no
\* thread advanced before, and never beyond total_ranges; a thread enters its
\* critical section only in the step in which it, holding range_mutex, finds
\* current_range equal to its range_group.
C36_RangeCounterDiscipline ==
  [][/\ current_range' # current_range =>
          /\ current_range' = current_range + 1
          /\ current_range' <= total_ranges
          /\ range_mutex \in RwThreadIds
          /\ rw_pc[range_mutex] = "advance"
          /\ thread_data[range_mutex].range_group = current_range
          /\ \A n \in 1 .. Len(rw_advanced) :
               thread_data[rw_advanced[n]].range_group # current_range
     /\ \A t \in RwThreadIds :
          (rw_pc[t] # "cs" /\ rw_pc'[t] = "cs") =>
            /\ range_mutex = t
            /\ current_range = thread_data[t].range_group]_vars

\* Every range has had its turn and main has returned, with a reader range of
\* two threads among the ranges.
C36_Witness ==
  /\ rw_main = "done"
  /\ total_ranges >= 4
  /\ current_range = total_ranges
  /\ Len(rw_advanced) = total_ranges
  /\ \E r \in 0 .. Len(ranges) - 1 : Cardinality(RangeThreads(r)) >= 2

\* C37: once the parent is past its first loop all NUM_CHILDREN children
\* exist; a child has printed its announcement never before it ran and exactly
\* once after; and the parent prints its termination message only when all
\* NUM_CHILDREN children have exited and been waited for.
C37_TenChildrenThenParent ==
  /\ fk_pc \in {"wait", "print", "done"} =>
       \A c \in ChildIndexes : fk_child[c] # "none"
  /\ \A c \in DOMAIN fk_child :
       fk_said[c] = IF fk_child[c] \in {"exited", "reaped"} THEN 1 ELSE 0
  /\ fk_pc \in {"print", "done"} =>
       \A c \in ChildIndexes : fk_child[c] = "reaped" /\ fk_said[c] = 1

\* The parent has printed its termination message.
C37_Witness ==
  /\ fk_pc = "done"
  /\ Cardinality({c \in ChildIndexes : fk_child[c] = "reaped"}) = NUM_CHILDREN

\* The clock values of client c's sends go up by at least 1 from each send to
\* the next.
ClockValuesIncrease(c) ==
  \A n \in 1 .. Len(sv_sent[c]) - 1 : sv_sent[c][n + 1][1] - sv_sent[c][n][1] >= 1

\* A handler closes and frees once, on its way out, and not before.
ClosedAndFreedOnce(c) ==
  /\ sv_pc[c] = "returned" =>
       /\ sv_closes[c] = 1 /\ sv_frees[c] = 1
       /\ c \notin sv_sockets /\ c \notin sv_infos
  /\ sv_pc[c] \in {"loop", "break"} =>
       /\ sv_closes[c] = 0 /\ sv_frees[c] = 0
       /\ c \in sv_sockets /\ c \in sv_infos
  /\ sv_pc[c] = "break" => sv_sent[c] = <<>> \/ last_sent[c] = sv_sent[c][Len(sv_sent[c])][1]

C39_FailedRunStopsHarness ==
  \A n \in 1 .. Len(an_results) :
    an_results[n] # 0 =>
      /\ n = Len(invoked)
      /\ an_pc = "failed"
      /\ an_status = 1
      /\ fp_open = FALSE
      /\ Len(csv) = invoked[n]
      /\ csv[1] = CsvHeader
      /\ \A row \in 2 .. Len(csv) : csv[row][1] = row - 1

\* A run for thread count 3 failed after rows 1 and 2 were written.
C39_Witness ==
  /\ an_pc = "failed"
  /\ an_results # <<>>
  /\ an_results[Len(an_results)] # 0
  /\ invoked[Len(invoked)] = 3
  /\ Len(an_results) > 11
  /\ Len(csv) = 3

====
